---- MODULE Spec2Model ----
(***************************************************************************)
(* curvy: the arena-owned UI tree (core/tree.rs, core/node.rs,             *)
(* core/rect.rs), the Store and the action dispatcher (core/store.rs,      *)
(* core/action.rs), the skin builder (skin/builder.rs) and the             *)
(* reconciliation sweeps of the application (main.rs).  NodeIds are        *)
(* 0-based arena indices as in the source; the arena `nodes` is a TLA+     *)
(* sequence, so slot `id` is nodes[id + 1].                                *)
(***************************************************************************)
EXTENDS Integers, Sequences, FiniteSets, TLC

\* ------------------------------------------------------------------------
\* Bounds of the model
\* ------------------------------------------------------------------------
\* Each specification bounds the arena (it never grows beyond ...Slots slots)
\* and the number of calls of add / remove that are handed an id whose slot
\* is not occupied (...StaleCalls).
\* Spec: tree mutation and the interaction singletons
MaxSlots == 2
MaxStaleCalls == 0
\* SpecTree, SpecHit: tree mutation, with stale handles
TreeSlots == 2
TreeStaleCalls == 2
\* SpecLayout: a tree built and laid out without stale handles
LayoutSlots == 3
\* SpecDispatch: the dispatcher holds at most MaxHandlers handlers
MaxHandlers == 3
\* SpecBuild: a skin declares at most MaxParts top-level parts
MaxParts == 2

\* Option<NodeId>::None
None == -1

\* A traversal that recursed deeper than the arena allows (stack overflow)
Overflow == -2


\* ------------------------------------------------------------------------
\* core/rect.rs
\* ------------------------------------------------------------------------
Rect(x, y, w, h) == [x |-> x, y |-> y, width |-> w, height |-> h]

RectDefault == Rect(0, 0, 0, 0)

Contains(r, px, py) ==
    /\ px >= r.x
    /\ py >= r.y
    /\ px < r.x + r.width
    /\ py < r.y + r.height

\* Inputs of set_bounds and hit_test
BoundsInputs == {Rect(0, 0, 2, 2), Rect(1, 1, 1, 1)}
Points == {<<0, 0>>, <<1, 1>>, <<2, 2>>}

\* ------------------------------------------------------------------------
\* core/node.rs
\* ------------------------------------------------------------------------
NewNode == [occ |-> TRUE, children |-> <<>>, parent |-> None, bounds |-> RectDefault]

\* A slot holding Option::None
Vacant == [occ |-> FALSE, children |-> <<>>, parent |-> None, bounds |-> RectDefault]

\* ------------------------------------------------------------------------
\* core/tree.rs: state
\* ------------------------------------------------------------------------
VARIABLES nodes, free_list, root, hovered, pressed, focused, captured,
          crashed, lastCall, staleCalls

\* ActionDispatcher::handlers, the Store, and the last call made on the
\* application layer (dispatcher, builder, sweeps) with what it returned
VARIABLES handlers, store, appCall

\* The skin handed to SkinBuilder::build, and the widgets the nodes own:
\* Node::widget of slot id is widgets[id + 1]
VARIABLES skin, widgets

\* SkinApp: the steps the last on_event took, in order (appLog)
VARIABLES appLog

appVars == <<handlers, store, appCall, skin, widgets, appLog>>

vars == <<nodes, free_list, root, hovered, pressed, focused, captured,
          crashed, lastCall, staleCalls, handlers, store, appCall, skin, widgets,
          appLog>>

treeVars == <<nodes, free_list, root, hovered, pressed, focused, captured>>

\* The UiTree as one value, for the operators below
Tree == [nodes |-> nodes, free_list |-> free_list, root |-> root,
         hovered |-> hovered, pressed |-> pressed, focused |-> focused,
         captured |-> captured, overflow |-> FALSE, visited |-> <<>>]

\* Handles a caller can hold: NodeId has no public constructor, so these are
\* the ids add has returned so far, whether their node is still there or not
Ids == 0 .. (Len(nodes) - 1)

\* The last call made on the tree: its arguments a and b (for remove, b is
\* the number of interaction references the call cleared), the id it
\* returned, and the ids it visited, in order (remove: the ids remove was
\* invoked on, draw: the ids whose widget was drawn)
Call(op, a, b, ret, visited) ==
    [op |-> op, a |-> a, b |-> b, ret |-> ret, visited |-> visited]

\* UiTree::get(id).is_some()
Occ(T, id) == id >= 0 /\ id < Len(T.nodes) /\ T.nodes[id + 1].occ

\* UiTree::get(id), for an occupied id
Get(T, id) == T.nodes[id + 1]

InRange(T, id) == id >= 0 /\ id < Len(T.nodes)

Retain(s, id) == SelectSeq(s, LAMBDA c : c # id)

\* ------------------------------------------------------------------------
\* UiTree::allocate_slot
\* ------------------------------------------------------------------------
AllocateSlot(T) ==
    IF T.free_list # <<>>
    THEN LET index == T.free_list[Len(T.free_list)]
         IN [t |-> [T EXCEPT !.free_list = SubSeq(T.free_list, 1, Len(T.free_list) - 1),
                             !.nodes[index + 1] = NewNode],
             id |-> index]
    ELSE [t |-> [T EXCEPT !.nodes = Append(T.nodes, NewNode)],
          id |-> Len(T.nodes)]

\* ------------------------------------------------------------------------
\* UiTree::add / UiTree::add_boxed
\* ------------------------------------------------------------------------
AddBoxed(T, parent) ==
    LET a == AllocateSlot(T)
        id == a.id
        T1 == a.t
        T2 == IF Occ(T1, parent)
              THEN [T1 EXCEPT !.nodes[parent + 1].children = Append(@, id)]
              ELSE T1
        T3 == IF Occ(T2, id)
              THEN [T2 EXCEPT !.nodes[id + 1].parent = parent]
              ELSE T2
    IN  IF parent # None
        THEN [t |-> T3, id |-> id]
        ELSE IF T.root = None
             THEN [t |-> [T1 EXCEPT !.root = id], id |-> id]
             ELSE [t |-> T1, id |-> id]

\* ------------------------------------------------------------------------
\* UiTree::remove
\* The recursion has no visited set; `fuel` is the number of frames still
\* allowed.  A chain of frames longer than Len(nodes) + 1 repeats an
\* occupied id, and a repeated occupied id repeats forever, so running out
\* of fuel is exactly the unbounded recursion of the source.
\* ------------------------------------------------------------------------
\* Mutant: the hovered reference is not cleared
ClearRefsKeepsHovered(T, id) ==
    [T EXCEPT !.root = IF @ = id THEN None ELSE @,
              !.pressed = IF @ = id THEN None ELSE @,
              !.focused = IF @ = id THEN None ELSE @,
              !.captured = IF @ = id THEN None ELSE @]

\* Mutant: pressed is cleared whatever it names
ClearRefsDropsPressed(T, id) ==
    [T EXCEPT !.root = IF @ = id THEN None ELSE @,
              !.hovered = IF @ = id THEN None ELSE @,
              !.pressed = None,
              !.focused = IF @ = id THEN None ELSE @,
              !.captured = IF @ = id THEN None ELSE @]

\* Mutant: the root reference is not cleared
ClearRefsKeepsRoot(T, id) ==
    [T EXCEPT !.hovered = IF @ = id THEN None ELSE @,
              !.pressed = IF @ = id THEN None ELSE @,
              !.focused = IF @ = id THEN None ELSE @,
              !.captured = IF @ = id THEN None ELSE @]

ClearRefs(T, id) ==
    [T EXCEPT !.root = IF @ = id THEN None ELSE @,
              !.hovered = IF @ = id THEN None ELSE @,
              !.pressed = IF @ = id THEN None ELSE @,
              !.focused = IF @ = id THEN None ELSE @,
              !.captured = IF @ = id THEN None ELSE @]

Unlink(T, id) ==
    IF Occ(T, id) /\ Get(T, id).parent # None /\ Occ(T, Get(T, id).parent)
    THEN [T EXCEPT !.nodes[Get(T, id).parent + 1].children = Retain(@, id)]
    ELSE T

FreeSlot(T, id) ==
    IF InRange(T, id)
    THEN [T EXCEPT !.nodes[id + 1] = Vacant,
                   !.free_list = Append(@, id)]
    ELSE T

RECURSIVE RemoveRec(_, _, _)
RECURSIVE RemoveChildren(_, _, _, _)

\* Mutant: the children are not removed with their parent
RemoveChildrenSkipped(T, children, i, fuel) == T

RemoveChildren(T, children, i, fuel) ==
    IF T.overflow \/ i > Len(children)
    THEN T
    ELSE RemoveChildren(RemoveRec(T, children[i], fuel), children, i + 1, fuel)

RemoveRec(T, id, fuel) ==
    IF fuel = 0
    THEN [T EXCEPT !.overflow = TRUE]
    ELSE LET children == IF Occ(T, id) THEN Get(T, id).children ELSE <<>>
             T0 == [T EXCEPT !.visited = Append(@, id)]
             T1 == RemoveChildren(T0, children, 1, fuel - 1)
         IN  IF T1.overflow
             THEN T1
             ELSE FreeSlot(ClearRefs(Unlink(T1, id), id), id)

RemoveTree(T, id) == RemoveRec(T, id, Len(T.nodes) + 1)

\* ------------------------------------------------------------------------
\* UiTree::hit_test / hit_test_node
\* ------------------------------------------------------------------------
RECURSIVE HitTestNode(_, _, _, _, _)
RECURSIVE HitTestChildren(_, _, _, _, _, _)
RECURSIVE HitTestChildrenForward(_, _, _, _, _, _)

\* Mutant: children.iter() without rev(), the first child wins
HitTestChildrenForward(T, children, i, x, y, fuel) ==
    IF i = 0
    THEN None
    ELSE LET hit == HitTestNode(T, children[Len(children) - i + 1], x, y, fuel)
         IN  IF hit # None
             THEN hit
             ELSE HitTestChildrenForward(T, children, i - 1, x, y, fuel)

\* children.iter().rev(): i runs from Len(children) down to 1
HitTestChildren(T, children, i, x, y, fuel) ==
    IF i = 0
    THEN None
    ELSE LET hit == HitTestNode(T, children[i], x, y, fuel)
         IN  IF hit # None
             THEN hit
             ELSE HitTestChildren(T, children, i - 1, x, y, fuel)

HitTestNode(T, id, x, y, fuel) ==
    IF fuel = 0
    THEN Overflow
    ELSE IF ~Occ(T, id)
    THEN None
    ELSE IF ~Contains(Get(T, id).bounds, x, y)
    THEN None
    ELSE LET hit == HitTestChildren(T, Get(T, id).children,
                                    Len(Get(T, id).children), x, y, fuel - 1)
         IN  IF hit # None THEN hit ELSE id

HitTestTree(T, x, y) ==
    IF T.root = None
    THEN None
    ELSE HitTestNode(T, T.root, x, y, Len(T.nodes) + 1)

\* ------------------------------------------------------------------------
\* UiTree::draw / draw_node: the sequence of ids whose widget is drawn
\* ------------------------------------------------------------------------
RECURSIVE DrawNode(_, _, _)
RECURSIVE DrawChildren(_, _, _, _)

DrawChildren(T, children, i, fuel) ==
    IF i > Len(children)
    THEN <<>>
    ELSE LET first == DrawNode(T, children[i], fuel)
         IN  IF first # <<>> /\ first[Len(first)] = Overflow
             THEN first
             ELSE first \o DrawChildren(T, children, i + 1, fuel)

DrawNode(T, id, fuel) ==
    IF fuel = 0
    THEN <<Overflow>>
    ELSE IF ~Occ(T, id)
    THEN <<>>
    ELSE <<id>> \o DrawChildren(T, Get(T, id).children, 1, fuel - 1)

DrawTree(T) ==
    IF T.root = None
    THEN <<>>
    ELSE DrawNode(T, T.root, Len(T.nodes) + 1)

\* ------------------------------------------------------------------------
\* core/store.rs
\* ------------------------------------------------------------------------
\* Strings are sequences of characters
Str42 == <<"4", "2">>
StrA == <<"a">>

\* enum Value.  A Number holds tenths: Number(42.0) is NumberV(420)
NullV == [tag |-> "Null", b |-> FALSE, n |-> 0, s |-> <<>>]
BoolV(b) == [tag |-> "Bool", b |-> b, n |-> 0, s |-> <<>>]
NumberV(n) == [tag |-> "Number", b |-> FALSE, n |-> n, s |-> <<>>]
StringV(s) == [tag |-> "String", b |-> FALSE, n |-> 0, s |-> s]

\* A key the HashMap does not hold
Absent == [tag |-> "Absent", b |-> FALSE, n |-> 0, s |-> <<>>]

\* Keys of the Store
Keys == {"inputs.x", "outputs.y"}

\* Store::new
StoreNew == [k \in Keys |-> Absent]

\* Store::set
StoreSet(st, key, value) == [st EXCEPT ![key] = value]

\* Store::clear
StoreClear(st) == [k \in Keys |-> Absent]

\* The decimal digits of a natural number, as format! prints them
DigitChar(d) == <<"0", "1", "2", "3", "4", "5", "6", "7", "8", "9">>[d + 1]

RECURSIVE Digits(_)
Digits(n) ==
    IF n < 10 THEN <<DigitChar(n)>> ELSE Append(Digits(n \div 10), DigitChar(n % 10))

\* Value::to_string_value
ToStringValue(v) ==
    IF v.tag = "Null"
    THEN <<>>
    ELSE IF v.tag = "Bool"
    THEN (IF v.b THEN <<"t", "r", "u", "e">> ELSE <<"f", "a", "l", "s", "e">>)
    ELSE IF v.tag = "Number"
    THEN (IF v.n % 10 = 0
          THEN Digits(v.n \div 10)
          ELSE Digits(v.n \div 10) \o <<".", DigitChar(v.n % 10)>>)
    ELSE v.s

\* Store::get_string
GetString(st, key) ==
    IF st[key].tag # "Absent" THEN ToStringValue(st[key]) ELSE <<>>

\* Store::remove
StoreRemove(st, key) == [st EXCEPT ![key] = Absent]

\* Store::contains
StoreContains(st, key) == st[key].tag # "Absent"

\* Store::get : Option<&Value>, Absent standing for None
StoreGet(st, key) == st[key]

\* Value::as_str : Option<&str>
AsStr(v) == IF v.tag = "String" THEN [some |-> TRUE, s |-> v.s] ELSE [some |-> FALSE, s |-> <<>>]

\* Value::as_bool : Option<bool>
AsBool(v) == IF v.tag = "Bool" THEN [some |-> TRUE, b |-> v.b] ELSE [some |-> FALSE, b |-> FALSE]

\* Store::get_str, were it to convert other types as get_string does
GetStrConverts(st, key) == GetString(st, key)

\* Store::get_str
GetStr(st, key) ==
    IF st[key].tag # "Absent" /\ AsStr(st[key]).some THEN AsStr(st[key]).s ELSE <<>>

\* Store::get_bool
GetBool(st, key) ==
    IF st[key].tag # "Absent" /\ AsBool(st[key]).some THEN AsBool(st[key]).b ELSE FALSE

\* An f64 with a finite decimal expansion, num / den with den the least
\* power of ten that makes num an integer; Option<f64>
RECURSIVE Decimal(_, _)
Decimal(num, den) ==
    IF den > 1 /\ num % 10 = 0
    THEN Decimal(num \div 10, den \div 10)
    ELSE [some |-> TRUE, num |-> num, den |-> den]

NoneF == [some |-> FALSE, num |-> 0, den |-> 1]

RECURSIVE Pow10(_)
Pow10(k) == IF k = 0 THEN 1 ELSE 10 * Pow10(k - 1)

IsDigit(c) == \E d \in 0 .. 9 : DigitChar(d) = c

\* The value of a string of decimal digits
RECURSIVE NatOf(_)
NatOf(s) ==
    IF s = <<>>
    THEN 0
    ELSE 10 * NatOf(SubSeq(s, 1, Len(s) - 1))
         + (CHOOSE d \in 0 .. 9 : DigitChar(d) = s[Len(s)])

\* str::parse::<f64> on a string without exponent, "inf" or "nan": an
\* optional sign, digits, an optional point, digits, at least one digit
ParseF64(s) ==
    LET signed == s # <<>> /\ s[1] \in {"-", "+"}
        body == IF signed THEN Tail(s) ELSE s
        dots == {i \in DOMAIN body : body[i] = "."}
        dot == IF dots = {} THEN Len(body) + 1
               ELSE CHOOSE i \in dots : \A j \in dots : i <= j
        int == SubSeq(body, 1, dot - 1)
        frac == SubSeq(body, dot + 1, Len(body))
        mag == NatOf(int) * Pow10(Len(frac)) + NatOf(frac)
    IN  IF /\ \A i \in DOMAIN int : IsDigit(int[i])
           /\ \A i \in DOMAIN frac : IsDigit(frac[i])
           /\ Len(int) + Len(frac) >= 1
        THEN Decimal(IF s[1] = "-" THEN 0 - mag ELSE mag, Pow10(Len(frac)))
        ELSE NoneF

\* Value::try_parse_number, were it Value::as_number
TryParseNumberOfNumbersOnly(v) ==
    IF v.tag = "Number" THEN Decimal(v.n, 10) ELSE NoneF

\* Value::try_parse_number
TryParseNumber(v) ==
    IF v.tag = "Number"
    THEN Decimal(v.n, 10)
    ELSE IF v.tag = "String"
    THEN ParseF64(v.s)
    ELSE NoneF

\* Store::get_number
GetNumber(st, key) ==
    IF st[key].tag # "Absent" THEN TryParseNumber(st[key]) ELSE NoneF

\* ------------------------------------------------------------------------
\* core/action.rs
\* ------------------------------------------------------------------------
\* Result<bool, ActionError>
OkR(v) == [kind |-> "Ok", v |-> v, e |-> "none"]
ErrR(e) == [kind |-> "Err", v |-> FALSE, e |-> e]

\* The call made on the application layer: its name, its argument, what it
\* returned and what it did, in order (dispatch: the positions of the
\* handlers it invoked)
AppCall(op, a, ret, trace) == [op |-> op, a |-> a, ret |-> ret, trace |-> trace]

\* Implementations of trait ActionHandler: handle() sets `key` to `val` in
\* the Store (unless key is "none") and then returns `ret`
HandlerKinds ==
    [ret : {OkR(TRUE), OkR(FALSE), ErrR("Failed"), ErrR("NotHandled")},
     key : {"none", "inputs.x", "outputs.y"},
     val : {StringV(Str42)}]

\* ActionHandler::handle as implemented by h: the Store it leaves
Handle(h, st) == IF h.key = "none" THEN st ELSE StoreSet(st, h.key, h.val)

\* Variant of Propagates: an Err is passed over like Ok(false)
PropagatesNever(r) == FALSE

\* `?` on the handler's result: an Err leaves dispatch at once
Propagates(r) == r.kind = "Err"

\* Variant of Handled: Ok(true) does not end the loop
HandledNever(r) == FALSE

\* `if handler.handle(..)? { return Ok(true) }`
Handled(r) == r.kind = "Ok" /\ r.v

\* Variant of Unhandled: an action nobody claimed is an error
UnhandledIsError == ErrR("NotHandled")

\* The value dispatch falls through to when the loop ends
Unhandled == OkR(FALSE)

\* ActionDispatcher::dispatch from handler i on; the result, the Store and
\* the positions of the handlers invoked
RECURSIVE DispatchFrom(_, _, _, _)
DispatchFrom(hs, i, st, invoked) ==
    IF i > Len(hs)
    THEN [ret |-> Unhandled, store |-> st, invoked |-> invoked]
    ELSE LET r == hs[i].ret
             st2 == Handle(hs[i], st)
             inv2 == Append(invoked, i)
         IN  IF Propagates(r)
             THEN [ret |-> r, store |-> st2, invoked |-> inv2]
             ELSE IF Handled(r)
             THEN [ret |-> OkR(TRUE), store |-> st2, invoked |-> inv2]
             ELSE DispatchFrom(hs, i + 1, st2, inv2)

Dispatch(hs, st) == DispatchFrom(hs, 1, st, <<>>)

\* ------------------------------------------------------------------------
\* skin/types.rs, skin/assets.rs: the skin
\* ------------------------------------------------------------------------
\* Keys of LoadedSkin::images
Images == {"img"}

\* LoadedSkin::get_image(key).is_some()
HasImage(key) == key \in Images

\* SkinWindow
Window == [width |-> 2, height |-> 2]

\* SkinPart.  `section` is the draw section the variant reads (draw,
\* text_input_draw, scrollbar, ...): <<>> for None, else <<keys>> with the
\* asset keys of the section in the order the builder resolves them.
\* `child` is <<>> for None, else <<part>>.
\* `validation` is <<>> for None, else <<TextValidation>>.
Part(part_type, asset, section, child, binding) ==
    [id |-> "", part_type |-> part_type, asset |-> asset,
     x |-> 0, y |-> 0, width |-> 1, height |-> 1, z |-> 0,
     section |-> section, invalid |-> "none", child |-> child,
     binding |-> binding, content |-> <<>>, content_height |-> None,
     action |-> "none", max_length |-> None, validation |-> <<>>]

\* enum TextValidation; `pattern` is the whitelist of Pattern
Validation(mode, pattern) == [mode |-> mode, pattern |-> pattern]

\* Skin with LoadedSkin on top
SkinOf(parts) == [window |-> Window, parts |-> parts]

\* ------------------------------------------------------------------------
\* skin/builder.rs
\* ------------------------------------------------------------------------
\* The widget a part becomes.  `child` is <<>> or <<widget>>; `invalid` is
\* the invalid-state image of a TextInput by its asset key, "none" for None:
\* draw.invalid.as_ref().and_then(|key| skin.get_image(key).cloned())
Widget(kind, part) ==
    [kind |-> kind, part |-> part.id, binding |-> part.binding,
     text |-> IF kind = "TextInput" THEN <<>> ELSE part.content,
     max_length |-> part.max_length,
     validation |-> IF part.validation = <<>> THEN Validation("Any", <<>>)
                    ELSE part.validation[1],
     dirty |-> FALSE, checked |-> FALSE,
     action |-> part.action, height |-> part.height,
     content_height |-> IF kind = "SkinVScroll" /\ part.content_height # None
                        THEN part.content_height
                        ELSE 0,
     invalid |-> IF kind = "TextInput" /\ part.invalid # "none" /\ HasImage(part.invalid)
                 THEN part.invalid
                 ELSE "none",
     child |-> <<>>, cursor |-> 0]

\* Container::transparent, the widget of the root
RootContainer ==
    [kind |-> "Container", part |-> "root", binding |-> "none", text |-> <<>>,
     max_length |-> None, validation |-> Validation("Any", <<>>),
     dirty |-> FALSE, checked |-> FALSE, action |-> "none",
     height |-> Window.height, content_height |-> 0, invalid |-> "none",
     child |-> <<>>, cursor |-> 0]

\* Height of the images of the asset map, and line_height_sized of the
\* default font size
ImageHeight == 3

LineHeight == 2

\* Widget::preferred_size().1: the skinned widgets take the size of their
\* first image, a StaticText that of a line of text, the containers the one
\* they were given
PreferredHeight(w) ==
    CASE w.kind = "StaticText" -> LineHeight
      [] w.kind \in {"SkinVScroll", "Container"} -> w.height
      [] OTHER -> ImageHeight

\* SkinVScroll::with_child (set_child): the content height becomes the
\* child's preferred height
WithChild(w, child) ==
    [w EXCEPT !.child = <<child>>, !.content_height = PreferredHeight(child)]

\* SkinVScroll::max_scroll
MaxScroll(w) == IF w.content_height > w.height THEN w.content_height - w.height ELSE 0

\* Result<Box<dyn Widget>, SkinError>
WidgetOk(w) == [ok |-> TRUE, err |-> "none", arg |-> "none", widget |-> <<w>>]
WidgetErr(err, arg) == [ok |-> FALSE, err |-> err, arg |-> arg, widget |-> <<>>]

\* Variants whose branch of create_widget reads a draw section
NeedsSection(part_type) ==
    part_type \in {"Button", "TextInput", "VScrollContainer",
                   "DirectoryPicker", "FilePicker", "Checkbox"}

\* The concrete widget type of a variant
WidgetKind(part_type) ==
    CASE part_type = "Image" -> "SkinImage"
      [] part_type = "Button" -> "SkinButton"
      [] part_type = "VScrollContainer" -> "SkinVScroll"
      [] OTHER -> part_type

\* The first key of `keys`, from position i on, that get_image does not
\* find; "none" if all are found
RECURSIVE FirstMissing(_, _)
FirstMissing(keys, i) ==
    IF i > Len(keys)
    THEN "none"
    ELSE IF ~HasImage(keys[i])
    THEN keys[i]
    ELSE FirstMissing(keys, i + 1)

\* Variant of SectionMissing: a part without its section is built anyway
SectionMissingIgnored(part) == FALSE

\* `.ok_or_else(|| SkinError::MissingDrawSection(..))?` on the section
SectionMissing(part) == NeedsSection(part.part_type) /\ part.section = <<>>

\* SkinBuilder::create_widget
RECURSIVE CreateWidget(_)
CreateWidget(part) ==
    IF part.part_type = "Image"
    THEN IF HasImage(part.asset)
         THEN WidgetOk(Widget("SkinImage", part))
         ELSE WidgetErr("AssetNotFound", part.asset)
    ELSE IF part.part_type = "StaticText"
    THEN WidgetOk(Widget("StaticText", part))
    ELSE IF SectionMissing(part)
    THEN WidgetErr("MissingDrawSection",
                   IF part.part_type = "VScrollContainer"
                   THEN part.id \o " (scrollbar)"
                   ELSE part.id)
    ELSE LET keys == IF part.section = <<>> THEN <<>> ELSE part.section[1]
             missing == FirstMissing(keys, 1)
             w == Widget(WidgetKind(part.part_type), part)
         IN  IF missing # "none"
             THEN WidgetErr("AssetNotFound", missing)
             ELSE IF part.part_type = "VScrollContainer" /\ part.child # <<>>
             THEN LET c == CreateWidget(part.child[1])
                  IN  IF c.ok
                      THEN WidgetOk(WithChild(w, c.widget[1]))
                      ELSE c
             ELSE WidgetOk(w)

RECURSIVE InsertByZ(_, _)
RECURSIVE InsertByZUnstable(_, _)

\* Variant of InsertByZ: a part goes in front of the parts of equal z
InsertByZUnstable(sorted, part) ==
    IF sorted = <<>>
    THEN <<part>>
    ELSE IF sorted[Len(sorted)].z < part.z
    THEN Append(sorted, part)
    ELSE Append(InsertByZUnstable(SubSeq(sorted, 1, Len(sorted) - 1), part),
                sorted[Len(sorted)])

\* Where sort_by_key puts a part into the sorted prefix: behind every part
\* whose z is not greater (the sort is stable)
InsertByZ(sorted, part) ==
    IF sorted = <<>>
    THEN <<part>>
    ELSE IF sorted[Len(sorted)].z <= part.z
    THEN Append(sorted, part)
    ELSE Append(InsertByZ(SubSeq(sorted, 1, Len(sorted) - 1), part),
                sorted[Len(sorted)])

\* parts.sort_by_key(|p| p.z)
RECURSIVE SortByZ(_, _)
SortByZ(parts, n) ==
    IF n = 0 THEN <<>> ELSE InsertByZ(SortByZ(parts, n - 1), parts[n])

\* UiTree::new as a value
TreeNew ==
    [nodes |-> <<>>, free_list |-> <<>>, root |-> None, hovered |-> None,
     pressed |-> None, focused |-> None, captured |-> None,
     overflow |-> FALSE, visited |-> <<>>]

\* Variant of WithBounds: the bounds stay as Node::new set them
WithBoundsIgnored(T, id, bounds) == T

\* UiTree::set_bounds on a value
WithBounds(T, id, bounds) ==
    IF Occ(T, id) THEN [T EXCEPT !.nodes[id + 1].bounds = bounds] ELSE T

\* Result<(UiTree, SkinWindow), SkinError>; `widgets` are the widgets the
\* nodes of the tree own, by slot.  An Err carries no tree.
BuildOk(T, ws) == [ok |-> TRUE, err |-> "none", arg |-> "none", tree |-> T, widgets |-> ws]
\* Variant of BuildErr: the tree built so far comes back with the error
BuildErrKeepsTree(err, arg, T, ws) ==
    [ok |-> FALSE, err |-> err, arg |-> arg, tree |-> T, widgets |-> ws]

BuildErr(err, arg, T, ws) ==
    [ok |-> FALSE, err |-> err, arg |-> arg, tree |-> TreeNew, widgets |-> <<>>]

\* The loop of build over the sorted parts, from part i on
RECURSIVE BuildParts(_, _, _, _, _)
BuildParts(parts, i, T, ws, root_id) ==
    IF i > Len(parts)
    THEN BuildOk(T, ws)
    ELSE LET w == CreateWidget(parts[i])
         IN  IF ~w.ok
             THEN BuildErr(w.err, w.arg, T, ws)
             ELSE LET r == AddBoxed(T, root_id)
                      bounds == Rect(parts[i].x, parts[i].y,
                                     parts[i].width, parts[i].height)
                  IN  BuildParts(parts, i + 1, WithBounds(r.t, r.id, bounds),
                                 Append(ws, w.widget[1]), root_id)

\* SkinBuilder::build
Build(sk) ==
    LET r == AddBoxed(TreeNew, None)
        T == WithBounds(r.t, r.id, Rect(0, 0, sk.window.width, sk.window.height))
        parts == SortByZ(sk.parts, Len(sk.parts))
    IN  BuildParts(parts, 1, T, <<RootContainer>>, r.id)

\* ------------------------------------------------------------------------
\* skin/widgets/text_input.rs, skin/widgets/checkbox.rs: on_event
\* ------------------------------------------------------------------------
\* WidgetEvent, as far as the application sends it.  `c` is the character
\* of a CharInput, "none" otherwise
Event(kind, c) == [kind |-> kind, c |-> c]

\* Printable characters a keyboard sends
Chars == {"4", "2"}

\* Printable ASCII (codes 32 to 126) by class; the grave accent (96), which
\* no string of this module can hold, is left out
AsciiDigits == {"0", "1", "2", "3", "4", "5", "6", "7", "8", "9"}

AsciiLetters ==
    {"a", "b", "c", "d", "e", "f", "g", "h", "i", "j", "k", "l", "m",
     "n", "o", "p", "q", "r", "s", "t", "u", "v", "w", "x", "y", "z",
     "A", "B", "C", "D", "E", "F", "G", "H", "I", "J", "K", "L", "M",
     "N", "O", "P", "Q", "R", "S", "T", "U", "V", "W", "X", "Y", "Z"}

AsciiPunctuation ==
    {" ", "!", "\"", "#", "$", "%", "&", "'", "(", ")", "*", "+", ",", "-",
     ".", "/", ":", ";", "<", "=", ">", "?", "@", "[", "\\", "]", "^", "_",
     "{", "|", "}", "~"}

\* TextInput::validate_char
ValidateChar(w, c) ==
    IF c \notin AsciiDigits \cup AsciiLetters \cup AsciiPunctuation
    THEN FALSE
    ELSE CASE w.validation.mode = "Any" -> TRUE
           [] w.validation.mode = "Numeric" -> c \in AsciiDigits
           [] w.validation.mode = "Alpha" -> c \in AsciiLetters
           [] w.validation.mode = "Alphanumeric" -> c \in AsciiLetters \cup AsciiDigits
           [] w.validation.mode = "Pattern" ->
                  \E i \in DOMAIN w.validation.pattern : w.validation.pattern[i] = c

\* A character of two bytes in UTF-8, U+00E9; every other character of this
\* module is ASCII, one byte
TwoByteChar == "U+00E9"

\* char::len_utf8
LenUtf8(c) == IF c = TwoByteChar THEN 2 ELSE 1

\* String::len, the length in bytes
RECURSIVE ByteLen(_)
ByteLen(text) == IF text = <<>> THEN 0 ELSE LenUtf8(Head(text)) + ByteLen(Tail(text))

\* The byte offset at which the i-th character of the text starts; the end
\* of the text for i = Len(text) + 1
Offset(text, i) == ByteLen(SubSeq(text, 1, i - 1))

\* str::is_char_boundary
IsCharBoundary(text, b) == \E i \in 1 .. Len(text) + 1 : Offset(text, i) = b

\* The position of the character that starts at the byte offset b
CharAt(text, b) == CHOOSE i \in 1 .. Len(text) + 1 : Offset(text, i) = b

\* The returns of insert_char and of on_event: the widget after the call and
\* the bool returned, or a panic
Returned(w, ret) == [w |-> w, ret |-> ret, panic |-> FALSE]

Panicked(w) == [w |-> w, ret |-> FALSE, panic |-> TRUE]

\* TextInput::insert_char, were the character not validated
InsertCharSkipsValidation(w, c) ==
    IF w.max_length # None /\ ByteLen(w.text) >= w.max_length
    THEN Returned(w, FALSE)
    ELSE IF ~IsCharBoundary(w.text, w.cursor)
    THEN Panicked(w)
    ELSE LET i == CharAt(w.text, w.cursor)
         IN  Returned([w EXCEPT !.text = SubSeq(w.text, 1, i - 1) \o <<c>>
                                            \o SubSeq(w.text, i, Len(w.text)),
                                 !.cursor = w.cursor + 1,
                                 !.dirty = TRUE], TRUE)

\* TextInput::insert_char.  String::insert(idx, c) panics when idx is not on
\* a char boundary
InsertChar(w, c) ==
    IF w.max_length # None /\ ByteLen(w.text) >= w.max_length
    THEN Returned(w, FALSE)
    ELSE IF ~ValidateChar(w, c)
    THEN Returned(w, FALSE)
    ELSE IF ~IsCharBoundary(w.text, w.cursor)
    THEN Panicked(w)
    ELSE LET i == CharAt(w.text, w.cursor)
         IN  Returned([w EXCEPT !.text = SubSeq(w.text, 1, i - 1) \o <<c>>
                                            \o SubSeq(w.text, i, Len(w.text)),
                                 !.cursor = w.cursor + 1,
                                 !.dirty = TRUE], TRUE)

\* String::remove(idx) of the text of w: panics when idx is not on a char
\* boundary
RemoveAt(w, idx) ==
    IF ~IsCharBoundary(w.text, idx)
    THEN Panicked(w)
    ELSE LET i == CharAt(w.text, idx)
         IN  Returned([w EXCEPT !.text = SubSeq(w.text, 1, i - 1)
                                            \o SubSeq(w.text, i + 1, Len(w.text)),
                                 !.dirty = TRUE], TRUE)

\* TextInput::backspace
Backspace(w) ==
    IF w.cursor > 0
    THEN RemoveAt([w EXCEPT !.cursor = w.cursor - 1], w.cursor - 1)
    ELSE Returned(w, FALSE)

\* TextInput::delete
Delete(w) ==
    IF w.cursor < ByteLen(w.text)
    THEN RemoveAt(w, w.cursor)
    ELSE Returned(w, FALSE)

\* TextInput::move_left, move_right
MoveLeft(w) == IF w.cursor > 0 THEN [w EXCEPT !.cursor = w.cursor - 1] ELSE w
MoveRight(w) == IF w.cursor < ByteLen(w.text) THEN [w EXCEPT !.cursor = w.cursor + 1] ELSE w

\* TextInput::set_text
SetText(w, text) ==
    [w EXCEPT !.text = text,
              !.cursor = IF w.cursor < ByteLen(text) THEN w.cursor ELSE ByteLen(text)]

\* TextInput::clear_dirty, Checkbox::clear_dirty
ClearDirty(w) == [w EXCEPT !.dirty = FALSE]

\* <TextInput as Widget>::on_event: key events are consumed whatever they
\* did; the events of the last arm (MouseMove, MouseUp, ...) are not.  The
\* bool of a call that panicked is never returned
TextInputOnEvent(w, ev) ==
    CASE ev.kind = "CharInput" -> InsertChar(w, ev.c)
      [] ev.kind = "Backspace" -> [Backspace(w) EXCEPT !.ret = TRUE]
      [] ev.kind = "Delete" -> [Delete(w) EXCEPT !.ret = TRUE]
      [] ev.kind = "Left" -> Returned(MoveLeft(w), TRUE)
      [] ev.kind = "Right" -> Returned(MoveRight(w), TRUE)
      [] ev.kind = "Home" -> Returned([w EXCEPT !.cursor = 0], TRUE)
      [] ev.kind = "End" -> Returned([w EXCEPT !.cursor = ByteLen(w.text)], TRUE)
      [] ev.kind \in {"Enter", "FocusGained", "FocusLost", "Click", "MouseDown"} ->
             Returned(w, TRUE)
      [] OTHER -> Returned(w, FALSE)

\* Variant of CheckboxOnEvent: a Click toggles without marking the widget
\* dirty
CheckboxOnEventKeepsClean(w, ev) ==
    IF ev.kind = "Click" THEN [w EXCEPT !.checked = ~w.checked] ELSE w

\* <Checkbox as Widget>::on_event: a Click is Checkbox::toggle
CheckboxOnEvent(w, ev) ==
    IF ev.kind = "Click" THEN [w EXCEPT !.checked = ~w.checked, !.dirty = TRUE] ELSE w

\* node.widget_mut().on_event(&event): the other widgets keep no state the
\* application reads
WidgetOnEvent(w, ev) ==
    CASE w.kind = "TextInput" -> TextInputOnEvent(w, ev).w
      [] w.kind = "Checkbox" -> CheckboxOnEvent(w, ev)
      [] OTHER -> w

\* ------------------------------------------------------------------------
\* main.rs: SkinApp
\* ------------------------------------------------------------------------
\* One step of an on_event call: the operation, the widgets and the Store
\* it started with (ws0, st0) and ended with (ws1, st1), and the nodes for
\* which it called the write of the operation (Store::set for the sweeps
\* into the Store, set_content for the sweep out of it, on_event for a click)
Step(op, ws0, st0, ws1, st1, wrote) ==
    [op |-> op, ws0 |-> ws0, st0 |-> st0, ws1 |-> ws1, st1 |-> st1, wrote |-> wrote]

\* UiTree::iter_node_ids: every node of the arena.  The order is not
\* specified; the two orders of an arena walk stand for it
IterNodeIds(T) ==
    {SelectSeq(order, LAMBDA id : Occ(T, id)) :
        order \in {[i \in 1 .. Len(T.nodes) |-> i - 1],
                   [i \in 1 .. Len(T.nodes) |-> Len(T.nodes) - i]}}

\* Variant of InputStep: the dirty flag is not consulted
InputStepIgnoresDirty(w, st) ==
    IF w.kind = "TextInput"
    THEN [w |-> ClearDirty(w),
          st |-> IF w.binding # "none" THEN StoreSet(st, w.binding, StringV(w.text)) ELSE st,
          wrote |-> w.binding # "none"]
    ELSE [w |-> w, st |-> st, wrote |-> FALSE]

\* Variant of InputStep: a dirty input without a binding key is left dirty
InputStepKeepsUnboundDirty(w, st) ==
    IF w.kind = "TextInput" /\ w.dirty /\ w.binding # "none"
    THEN [w |-> ClearDirty(w), st |-> StoreSet(st, w.binding, StringV(w.text)),
          wrote |-> TRUE]
    ELSE [w |-> w, st |-> st, wrote |-> FALSE]

\* sync_inputs_to_store, the body of the loop for one node's widget
InputStep(w, st) ==
    IF w.kind = "TextInput" /\ w.dirty
    THEN [w |-> ClearDirty(w),
          st |-> IF w.binding # "none" THEN StoreSet(st, w.binding, StringV(w.text)) ELSE st,
          wrote |-> w.binding # "none"]
    ELSE [w |-> w, st |-> st, wrote |-> FALSE]

\* sync_checkboxes_to_store, the body of the loop for one node's widget
CheckboxStep(w, st) ==
    IF w.kind = "Checkbox" /\ w.dirty
    THEN [w |-> ClearDirty(w),
          st |-> IF w.binding # "none" THEN StoreSet(st, w.binding, BoolV(w.checked)) ELSE st,
          wrote |-> w.binding # "none"]
    ELSE [w |-> w, st |-> st, wrote |-> FALSE]

\* Variant of OutputStep: the content is set to whatever the key holds,
\* empty or not
OutputStepWritesEmpty(w, st) ==
    IF w.kind = "StaticText" /\ w.binding # "none"
    THEN LET value == GetString(st, w.binding)
         IN  IF value # w.text
             THEN [w |-> [w EXCEPT !.text = value], st |-> st, wrote |-> TRUE]
             ELSE [w |-> w, st |-> st, wrote |-> FALSE]
    ELSE [w |-> w, st |-> st, wrote |-> FALSE]

\* sync_store_to_outputs, the body of the loop for one node's widget
OutputStep(w, st) ==
    IF w.kind = "StaticText" /\ w.binding # "none"
    THEN LET value == GetString(st, w.binding)
         IN  IF value # <<>> /\ value # w.text
             THEN [w |-> [w EXCEPT !.text = value], st |-> st, wrote |-> TRUE]
             ELSE [w |-> w, st |-> st, wrote |-> FALSE]
    ELSE [w |-> w, st |-> st, wrote |-> FALSE]

\* Variant of SweepInputs: the loop ends at the first widget it wrote
RECURSIVE SweepInputsStopsAtFirstWrite(_, _, _, _, _)
SweepInputsStopsAtFirstWrite(T, ws, st, ids, wrote) ==
    IF ids = <<>> \/ wrote # <<>>
    THEN [widgets |-> ws, store |-> st, wrote |-> wrote]
    ELSE LET id == Head(ids)
         IN  IF ~Occ(T, id)
             THEN SweepInputsStopsAtFirstWrite(T, ws, st, Tail(ids), wrote)
             ELSE LET r == InputStep(ws[id + 1], st)
                  IN  SweepInputsStopsAtFirstWrite(T, [ws EXCEPT ![id + 1] = r.w], r.st,
                                                   Tail(ids),
                                                   IF r.wrote THEN Append(wrote, id) ELSE wrote)

\* The loops of the three sweeps over node_ids: tree.get_mut(id), then the
\* body.  `wrote` collects the ids the body wrote for
RECURSIVE SweepInputs(_, _, _, _, _)
SweepInputs(T, ws, st, ids, wrote) ==
    IF ids = <<>>
    THEN [widgets |-> ws, store |-> st, wrote |-> wrote]
    ELSE LET id == Head(ids)
         IN  IF ~Occ(T, id)
             THEN SweepInputs(T, ws, st, Tail(ids), wrote)
             ELSE LET r == InputStep(ws[id + 1], st)
                  IN  SweepInputs(T, [ws EXCEPT ![id + 1] = r.w], r.st, Tail(ids),
                                  IF r.wrote THEN Append(wrote, id) ELSE wrote)

RECURSIVE SweepCheckboxes(_, _, _, _, _)
SweepCheckboxes(T, ws, st, ids, wrote) ==
    IF ids = <<>>
    THEN [widgets |-> ws, store |-> st, wrote |-> wrote]
    ELSE LET id == Head(ids)
         IN  IF ~Occ(T, id)
             THEN SweepCheckboxes(T, ws, st, Tail(ids), wrote)
             ELSE LET r == CheckboxStep(ws[id + 1], st)
                  IN  SweepCheckboxes(T, [ws EXCEPT ![id + 1] = r.w], r.st, Tail(ids),
                                      IF r.wrote THEN Append(wrote, id) ELSE wrote)

RECURSIVE SweepOutputs(_, _, _, _, _)
SweepOutputs(T, ws, st, ids, wrote) ==
    IF ids = <<>>
    THEN [widgets |-> ws, store |-> st, wrote |-> wrote]
    ELSE LET id == Head(ids)
         IN  IF ~Occ(T, id)
             THEN SweepOutputs(T, ws, st, Tail(ids), wrote)
             ELSE LET r == OutputStep(ws[id + 1], st)
                  IN  SweepOutputs(T, [ws EXCEPT ![id + 1] = r.w], r.st, Tail(ids),
                                   IF r.wrote THEN Append(wrote, id) ELSE wrote)

\* The SkinApp as one value.  `ids` is what iter_node_ids yields during the
\* event being handled
AppOf(ids) ==
    [tree |-> Tree, widgets |-> widgets, store |-> store, dispatcher |-> handlers,
     ids |-> ids, log |-> <<>>]

Logged(A, op, ws1, st1, wrote) ==
    [A EXCEPT !.widgets = ws1, !.store = st1,
              !.log = Append(A.log, Step(op, A.widgets, A.store, ws1, st1, wrote))]

\* SkinApp::sync_inputs_to_store
SyncInputsToStore(A) ==
    LET r == SweepInputs(A.tree, A.widgets, A.store, A.ids, <<>>)
    IN  Logged(A, "sync_inputs", r.widgets, r.store, r.wrote)

\* SkinApp::sync_checkboxes_to_store
SyncCheckboxesToStore(A) ==
    LET r == SweepCheckboxes(A.tree, A.widgets, A.store, A.ids, <<>>)
    IN  Logged(A, "sync_checkboxes", r.widgets, r.store, r.wrote)

\* SkinApp::sync_store_to_outputs
SyncStoreToOutputs(A) ==
    LET r == SweepOutputs(A.tree, A.widgets, A.store, A.ids, <<>>)
    IN  Logged(A, "sync_outputs", r.widgets, r.store, r.wrote)

\* SkinApp::dispatch_action: an Err is printed and dropped
DispatchAction(A) ==
    LET d == Dispatch(A.dispatcher, A.store)
    IN  Logged(A, "dispatch", A.widgets, d.store, <<>>)

\* SkinApp::get_button_action
GetButtonAction(A, id) ==
    IF Occ(A.tree, id) /\ A.widgets[id + 1].kind = "SkinButton"
    THEN A.widgets[id + 1].action
    ELSE "none"

\* node.widget_mut().on_event(&event) behind tree.get_mut(id)
SendEvent(A, id, ev) ==
    IF Occ(A.tree, id)
    THEN [A EXCEPT !.widgets[id + 1] = WidgetOnEvent(A.widgets[id + 1], ev)]
    ELSE A

\* SkinApp::handle_checkbox_actions
HandleCheckboxActions(A) ==
    LET p == A.tree.pressed
        action == IF p # None /\ Occ(A.tree, p) /\ A.widgets[p + 1].kind = "Checkbox"
                  THEN A.widgets[p + 1].action
                  ELSE "none"
    IN  IF action # "none"
        THEN SyncStoreToOutputs(DispatchAction(SyncInputsToStore(A)))
        ELSE A

\* on_event, WindowEvent::CursorMoved.  MouseMove changes no widget state
\* the application reads
OnCursorMoved(A, x, y) ==
    [A EXCEPT !.tree.hovered = HitTestTree(A.tree, x, y)]

\* node.widget_mut().on_event(&WidgetEvent::FocusLost / FocusGained) behind
\* tree.get_mut(id)
Notify(A, id, kind) ==
    IF Occ(A.tree, id)
    THEN Logged(A, kind, SendEvent(A, id, Event(kind, "none")).widgets, A.store, <<id>>)
    ELSE A

\* on_event of a press, were the new widget told before the old one
OnMousePressedGainsFirst(A) ==
    LET h == A.tree.hovered
        old == A.tree.focused
    IN  IF h # None
        THEN LET P == [A EXCEPT !.tree.pressed = h]
             IN  IF old # h
                 THEN LET G == Notify([P EXCEPT !.tree.focused = h], h, "FocusGained")
                      IN  IF old # None THEN Notify(G, old, "FocusLost") ELSE G
                 ELSE P
        ELSE [(IF old # None THEN Notify(A, old, "FocusLost") ELSE A)
                 EXCEPT !.tree.focused = None]

\* on_event, WindowEvent::MouseInput, ElementState::Pressed
OnMousePressed(A) ==
    LET h == A.tree.hovered
        old == A.tree.focused
    IN  IF h # None
        THEN LET P == [A EXCEPT !.tree.pressed = h]
             IN  IF old # h
                 THEN Notify([(IF old # None THEN Notify(P, old, "FocusLost") ELSE P)
                                 EXCEPT !.tree.focused = h], h, "FocusGained")
                 ELSE P
        ELSE [(IF old # None THEN Notify(A, old, "FocusLost") ELSE A)
                 EXCEPT !.tree.focused = None]

\* The click of a release over the pressed node: on_event(Click), the
\* checkbox sweep and the checkbox actions, then the button's action between
\* the two sweeps.  The skins hold no FilePicker, so
\* handle_file_picker_actions finds no pending action
OnClick(A, p) ==
    LET action == GetButtonAction(A, p)
        clicked == Logged(A, "click", SendEvent(A, p, Event("Click", "none")).widgets,
                          A.store, <<p>>)
        checked == HandleCheckboxActions(SyncCheckboxesToStore(clicked))
    IN  IF action # "none"
        THEN SyncStoreToOutputs(
                 IF action = "launch_selected_app"
                 THEN SyncInputsToStore(checked)
                 ELSE DispatchAction(SyncInputsToStore(checked)))
        ELSE checked

\* on_event of a release, were the hovered node not compared with the
\* pressed one
OnMouseReleasedIgnoresHover(A) ==
    LET p == A.tree.pressed
        done == IF p # None THEN OnClick(A, p) ELSE A
    IN  [done EXCEPT !.tree.pressed = None]

\* on_event of a release, were pressed cleared only after a click
OnMouseReleasedKeepsPressed(A) ==
    LET p == A.tree.pressed
    IN  IF p # None /\ A.tree.hovered = p
        THEN [OnClick(A, p) EXCEPT !.tree.pressed = None]
        ELSE A

\* on_event, WindowEvent::MouseInput, ElementState::Released
OnMouseReleased(A) ==
    LET p == A.tree.pressed
        done == IF p # None /\ A.tree.hovered = p THEN OnClick(A, p) ELSE A
    IN  [done EXCEPT !.tree.pressed = None]

\* on_event of a key, were the inputs not swept into the Store afterwards
OnKeyboardInputWithoutSweep(A, ev) ==
    IF A.tree.focused # None
    THEN SendEvent(A, A.tree.focused, ev)
    ELSE A

\* on_event, WindowEvent::KeyboardInput of a pressed key that maps to a
\* WidgetEvent
OnKeyboardInput(A, ev) ==
    IF A.tree.focused # None
    THEN SyncInputsToStore(SendEvent(A, A.tree.focused, ev))
    ELSE A

\* ------------------------------------------------------------------------
\* Initial state: UiTree::new, ActionDispatcher::new, Store::new
\* ------------------------------------------------------------------------
Init ==
    /\ nodes = <<>>
    /\ free_list = <<>>
    /\ root = None
    /\ hovered = None
    /\ pressed = None
    /\ focused = None
    /\ captured = None
    /\ crashed = FALSE
    /\ lastCall = Call("new", None, None, None, <<>>)
    /\ staleCalls = 0
    /\ handlers = <<>>
    /\ store = StoreNew
    /\ appCall = AppCall("new", "none", OkR(FALSE), <<>>)
    /\ skin = SkinOf(<<>>)
    /\ widgets = <<>>
    /\ appLog = <<>>

SetTree(T) ==
    /\ nodes' = T.nodes
    /\ free_list' = T.free_list
    /\ root' = T.root
    /\ hovered' = T.hovered
    /\ pressed' = T.pressed
    /\ focused' = T.focused
    /\ captured' = T.captured

\* ------------------------------------------------------------------------
\* Actions: one per public operation of UiTree
\* ------------------------------------------------------------------------
\* Bounds the calls made with a stale or foreign handle
CountStale(isStale, maxStale) ==
    IF isStale
    THEN staleCalls < maxStale /\ staleCalls' = staleCalls + 1
    ELSE UNCHANGED staleCalls

\* How many of the four interaction references a call set to None
ClearedCount(T) ==
    Cardinality({k \in {"hovered", "pressed", "focused", "captured"} :
                   Tree[k] # None /\ T[k] = None})

Add(parent, maxSlots, maxStale) ==
    /\ ~crashed
    /\ free_list = <<>> => Len(nodes) < maxSlots
    /\ CountStale(parent # None /\ ~Occ(Tree, parent), maxStale)
    /\ LET r == AddBoxed(Tree, parent)
       IN  /\ SetTree(r.t)
           /\ lastCall' = Call("add", parent, None, r.id, <<>>)
    /\ UNCHANGED <<crashed, appVars>>

Remove(id, maxStale) ==
    /\ ~crashed
    /\ UNCHANGED appVars
    /\ CountStale(~Occ(Tree, id), maxStale)
    /\ LET T == RemoveTree(Tree, id)
       IN  IF T.overflow
           THEN /\ crashed' = TRUE
                /\ UNCHANGED treeVars
                /\ lastCall' = Call("remove", id, None, None, T.visited)
           ELSE /\ SetTree(T)
                /\ UNCHANGED crashed
                /\ lastCall' = Call("remove", id, ClearedCount(T), None, T.visited)

SetBounds(id, bounds) ==
    /\ ~crashed
    /\ Occ(Tree, id)
    /\ nodes' = [nodes EXCEPT ![id + 1].bounds = bounds]
    /\ lastCall' = Call("set_bounds", id, None, None, <<>>)
    /\ UNCHANGED <<free_list, root, hovered, pressed, focused, captured, crashed, staleCalls, appVars>>

SetHovered(id) ==
    /\ ~crashed
    /\ id = None \/ Occ(Tree, id)
    /\ hovered' = id
    /\ lastCall' = Call("set", None, None, None, <<>>)
    /\ UNCHANGED <<nodes, free_list, root, pressed, focused, captured, crashed, staleCalls, appVars>>

SetPressed(id) ==
    /\ ~crashed
    /\ id = None \/ Occ(Tree, id)
    /\ pressed' = id
    /\ lastCall' = Call("set", None, None, None, <<>>)
    /\ UNCHANGED <<nodes, free_list, root, hovered, focused, captured, crashed, staleCalls, appVars>>

SetFocused(id) ==
    /\ ~crashed
    /\ id = None \/ Occ(Tree, id)
    /\ focused' = id
    /\ lastCall' = Call("set", None, None, None, <<>>)
    /\ UNCHANGED <<nodes, free_list, root, hovered, pressed, captured, crashed, staleCalls, appVars>>

SetCaptured(id) ==
    /\ ~crashed
    /\ id = None \/ Occ(Tree, id)
    /\ captured' = id
    /\ lastCall' = Call("set", None, None, None, <<>>)
    /\ UNCHANGED <<nodes, free_list, root, hovered, pressed, focused, crashed, staleCalls, appVars>>

HitTest(x, y) ==
    /\ ~crashed
    /\ LET hit == HitTestTree(Tree, x, y)
       IN  /\ crashed' = (hit = Overflow)
           /\ lastCall' = Call("hit_test", x, y, hit, <<>>)
    /\ UNCHANGED <<treeVars, staleCalls, appVars>>

Draw ==
    /\ ~crashed
    /\ LET d == DrawTree(Tree)
       IN  /\ crashed' = (d # <<>> /\ d[Len(d)] = Overflow)
           /\ lastCall' = Call("draw", None, None, None, d)
    /\ UNCHANGED <<treeVars, staleCalls, appVars>>

\* ------------------------------------------------------------------------
\* Actions of the dispatcher and the Store
\* ------------------------------------------------------------------------
\* ActionDispatcher::add_handler
AddHandler(h) ==
    /\ Len(handlers) < MaxHandlers
    /\ handlers' = Append(handlers, h)
    /\ appCall' = AppCall("add_handler", "none", OkR(FALSE), <<>>)
    /\ UNCHANGED <<treeVars, crashed, lastCall, staleCalls, store, skin, widgets, appLog>>

\* ActionDispatcher::dispatch
DoDispatch ==
    /\ LET d == Dispatch(handlers, store)
       IN  /\ store' = d.store
           /\ appCall' = AppCall("dispatch", "none", d.ret, d.invoked)
    /\ UNCHANGED <<treeVars, crashed, lastCall, staleCalls, handlers, skin, widgets, appLog>>

\* Store::clear
ClearStore ==
    /\ store' = StoreClear(store)
    /\ appCall' = AppCall("clear", "none", OkR(FALSE), <<>>)
    /\ UNCHANGED <<treeVars, crashed, lastCall, staleCalls, handlers, skin, widgets, appLog>>

\* ------------------------------------------------------------------------
\* Actions of the Store alone
\* ------------------------------------------------------------------------
\* Longest string stored, and the characters strings are made of
MaxStrLen == 2
StoreChars == {"4", ".", "-"}

StoreStrings == UNION {[1 .. k -> StoreChars] : k \in 0 .. MaxStrLen}

\* Values handed to Store::set
StoreValues ==
    {NullV, BoolV(TRUE), BoolV(FALSE), NumberV(40), NumberV(44), NumberV(0 - 4)}
        \cup {StringV(s) : s \in StoreStrings}

\* Store::set
SetStore(key, value) ==
    /\ store' = StoreSet(store, key, value)
    /\ appCall' = AppCall("set", key, OkR(FALSE), <<>>)
    /\ UNCHANGED <<treeVars, crashed, lastCall, staleCalls, handlers, skin, widgets, appLog>>

\* Store::remove
RemoveStore(key) ==
    /\ store' = StoreRemove(store, key)
    /\ appCall' = AppCall("remove", key, OkR(StoreContains(store, key)), <<store[key]>>)
    /\ UNCHANGED <<treeVars, crashed, lastCall, staleCalls, handlers, skin, widgets, appLog>>

\* Store::get (&self)
ReadGet(key) ==
    /\ appCall' = AppCall("get", key, OkR(StoreGet(store, key).tag # "Absent"),
                          <<StoreGet(store, key)>>)
    /\ UNCHANGED <<treeVars, crashed, lastCall, staleCalls, handlers, store, skin, widgets, appLog>>

\* Store::get_str (&self)
ReadStr(key) ==
    /\ appCall' = AppCall("get_str", key, OkR(TRUE), GetStr(store, key))
    /\ UNCHANGED <<treeVars, crashed, lastCall, staleCalls, handlers, store, skin, widgets, appLog>>

\* Store::get_bool (&self)
ReadBool(key) ==
    /\ appCall' = AppCall("get_bool", key, OkR(GetBool(store, key)), <<>>)
    /\ UNCHANGED <<treeVars, crashed, lastCall, staleCalls, handlers, store, skin, widgets, appLog>>

\* Store::get_number (&self): Some(num / den) or None
ReadNumber(key) ==
    /\ LET r == GetNumber(store, key)
       IN  appCall' = AppCall("get_number", key, OkR(r.some), <<r.num, r.den>>)
    /\ UNCHANGED <<treeVars, crashed, lastCall, staleCalls, handlers, store, skin, widgets, appLog>>

\* ------------------------------------------------------------------------
\* Actions of the skin and the builder
\* ------------------------------------------------------------------------
\* Draw sections as skins declare them: complete, or naming a key that is
\* not among the assets
Keys2 == {<<"img", "img">>, <<"img", "gone">>}
Keys3 == {<<"img", "img", "img">>, <<"gone", "img", "img">>}

\* Child parts of a scroll container
ChildShapes ==
    {Part("Image", "img", <<>>, <<>>, "none"),
     Part("Image", "gone", <<>>, <<>>, "none"),
     Part("Button", "none", <<>>, <<>>, "none")}

\* content_height of the scroll containers that specify one
ContentHeight == 5

\* The parts a skin can declare, up to id, z and geometry
PartShapes ==
    {Part("Image", a, <<>>, <<>>, "none") : a \in {"img", "gone"}}
      \cup {Part("Button", "none", sec, <<>>, "none") :
               sec \in {<<>>} \cup {<<k>> : k \in Keys3}}
      \cup {Part("TextInput", "none", sec, <<>>, "inputs.x") :
               sec \in {<<>>, <<<<"img", "img", "img">>>>}}
      \cup {[Part("TextInput", "none", <<<<"img", "img", "img">>>>, <<>>, "inputs.x")
                EXCEPT !.invalid = k] : k \in {"img", "gone"}}
      \cup {Part("StaticText", "none", <<>>, <<>>, "outputs.y")}
      \cup {Part("VScrollContainer", "none", <<<<"img", "img">>>>, <<c>>, "none") :
               c \in ChildShapes}
      \cup {Part("VScrollContainer", "none", sec, <<>>, "none") :
               sec \in {<<>>} \cup {<<k>> : k \in Keys2}}
      \cup {[Part("VScrollContainer", "none", <<<<"img", "img">>>>, child, "none")
                EXCEPT !.content_height = ContentHeight] :
               child \in {<<>>, <<Part("Image", "img", <<>>, <<>>, "none")>>,
                          <<Part("StaticText", "none", <<>>, <<>>, "outputs.y")>>}}
      \cup {Part(t, "none", sec, <<>>, "none") :
               t \in {"DirectoryPicker", "FilePicker", "Checkbox"},
               sec \in {<<>>, <<<<"img", "img">>>>}}

\* The skin declares one more part, the n-th, at layer z
Declared(shape, n, z) ==
    [shape EXCEPT !.id = "p" \o ToString(n), !.z = z, !.x = n, !.y = z,
                  !.width = 1 + z,
                  !.child = IF shape.child = <<>>
                            THEN <<>>
                            ELSE <<[shape.child[1] EXCEPT !.id = "c" \o ToString(n)]>>]

DeclarePart(shape, z) ==
    /\ Len(skin.parts) < MaxParts
    /\ skin' = SkinOf(Append(skin.parts, Declared(shape, Len(skin.parts) + 1, z)))
    /\ appCall' = AppCall("declare", "none", OkR(FALSE), <<>>)
    /\ UNCHANGED <<treeVars, crashed, lastCall, staleCalls, handlers, store, widgets, appLog>>

\* SkinBuilder::build(&skin): the caller holds the tree it returned, or the
\* error
BuildSkin ==
    /\ LET r == Build(skin)
       IN  /\ SetTree(r.tree)
           /\ widgets' = r.widgets
           /\ appCall' = AppCall("build", r.arg,
                                 IF r.ok THEN OkR(TRUE) ELSE ErrR(r.err), <<>>)
    /\ UNCHANGED <<crashed, lastCall, staleCalls, handlers, store, skin, appLog>>

\* ------------------------------------------------------------------------
\* The application: SkinApp::new and SkinApp::on_event
\* ------------------------------------------------------------------------
\* with_max_length of the text inputs of the skins below
MaxLength == 1

\* The n-th part of an application skin: each part fills one cell of the
\* window
AppPart(part_type, binding, content, action, child, n) ==
    [Part(part_type, "none",
          CASE part_type = "StaticText" -> <<>>
            [] part_type \in {"Button", "TextInput"} -> <<<<"img", "img", "img">>>>
            [] OTHER -> <<<<"img", "img">>>>,
          child, binding)
       EXCEPT !.id = "p" \o ToString(n), !.x = (n - 1) % 2, !.y = (n - 1) \div 2,
              !.content = content, !.action = action,
              !.max_length = IF part_type = "TextInput" THEN MaxLength ELSE None]

\* Skins of the bundles the application is started on: an input shown by a
\* static text, two inputs on one key, and outputs at the top level and
\* inside a scroll container
InputSkin ==
    <<AppPart("TextInput", "inputs.x", <<>>, "none", <<>>, 1),
      AppPart("StaticText", "inputs.x", <<>>, "none", <<>>, 2),
      AppPart("Button", "none", <<>>, "launch_selected_app", <<>>, 3)>>

TwoInputsSkin ==
    <<AppPart("TextInput", "inputs.x", <<>>, "none", <<>>, 1),
      AppPart("TextInput", "inputs.x", <<>>, "none", <<>>, 2)>>

OutputSkin ==
    <<AppPart("Button", "none", <<>>, "calc", <<>>, 1),
      AppPart("StaticText", "outputs.y", StrA, "none", <<>>, 2),
      AppPart("VScrollContainer", "none", <<>>, "none",
              <<AppPart("StaticText", "outputs.y", <<>>, "none", <<>>, 4)>>, 3)>>

\* What the action script of a bundle does when the LuaActionHandler runs
\* it: it claims the action or fails, after writing one key of the Store
LuaKinds ==
    [ret : {OkR(TRUE), ErrR("Failed")},
     key : {"outputs.y"},
     val : {StringV(Str42), StringV(<<>>), NumberV(420), NumberV(425), NullV}]

\* A bundle without action scripts registers a handler that claims nothing
NoScripts == [ret |-> OkR(FALSE), key |-> "none", val |-> StringV(Str42)]

\* AppBundle: the skin and the action scripts
AppBundles ==
    {[parts |-> InputSkin, lua |-> NoScripts], [parts |-> TwoInputsSkin, lua |-> NoScripts]}
      \cup {[parts |-> OutputSkin, lua |-> h] : h \in LuaKinds}

\* Positions of the pointer: the four cells of the window, and outside
AppPoints == {<<0, 0>>, <<1, 0>>, <<0, 1>>, <<1, 1>>, <<2, 2>>}

\* Keys of the keyboard that on_event maps to a WidgetEvent
KeyEvents ==
    {Event("CharInput", c) : c \in Chars}
      \cup {Event(k, "none") : k \in {"Backspace", "Delete", "Left"}}

\* SkinApp::new(bundle)
StartOn(bundle) ==
    LET r == Build(SkinOf(bundle.parts))
    IN  /\ nodes = r.tree.nodes
        /\ free_list = r.tree.free_list
        /\ root = r.tree.root
        /\ hovered = r.tree.hovered
        /\ pressed = r.tree.pressed
        /\ focused = r.tree.focused
        /\ captured = r.tree.captured
        /\ crashed = FALSE
        /\ lastCall = Call("new", None, None, None, <<>>)
        /\ staleCalls = 0
        /\ handlers = <<bundle.lua>>
        /\ store = StoreNew
        /\ appCall = AppCall("new", "none", OkR(r.ok), <<>>)
        /\ skin = SkinOf(bundle.parts)
        /\ widgets = r.widgets
        /\ appLog = <<>>

InitApp == \E bundle \in AppBundles : StartOn(bundle)

\* Bundles of a form: a text input with a button and an output, and
\* checkboxes with and without binding and action, one of them shown by a
\* static text
FormSkin ==
    <<AppPart("TextInput", "inputs.x", <<>>, "none", <<>>, 1),
      AppPart("Button", "none", <<>>, "calc", <<>>, 2),
      AppPart("StaticText", "outputs.y", <<>>, "none", <<>>, 3)>>

CheckSkin ==
    <<AppPart("Checkbox", "inputs.x", <<>>, "calc", <<>>, 1),
      AppPart("Checkbox", "none", <<>>, "none", <<>>, 2),
      AppPart("StaticText", "inputs.x", <<>>, "none", <<>>, 3)>>

\* Action scripts of the form bundles: the handler writes an output or the
\* key of the input, and claims the action or fails
FormKinds ==
    {[ret |-> OkR(TRUE), key |-> "outputs.y", val |-> StringV(Str42)],
     [ret |-> ErrR("Failed"), key |-> "outputs.y", val |-> StringV(Str42)],
     [ret |-> OkR(TRUE), key |-> "inputs.x", val |-> StringV(StrA)]}

FormBundles == {[parts |-> sk, lua |-> h] : sk \in {FormSkin, CheckSkin}, h \in FormKinds}

InitForm == \E bundle \in FormBundles : StartOn(bundle)

\* History of the pointer for the press in progress, kept until the call
\* after the release: the node the button went down on and, once the
\* pointer has moved onto another node or off every node, the first such
\* target (None for no node)
PointerTrace(A, op) ==
    IF op = "mouse_pressed"
    THEN (IF hovered # None THEN <<hovered>> ELSE <<>>)
    ELSE IF op = "mouse_released"
    THEN appCall.trace
    ELSE IF pressed = None
    THEN <<>>
    ELSE IF /\ op = "cursor_moved"
            /\ Len(appCall.trace) = 1
            /\ pressed = appCall.trace[1]
            /\ A.tree.hovered # pressed
    THEN <<pressed, A.tree.hovered>>
    ELSE appCall.trace

\* on_event returns: the application holds what the handler left
SetApp(A, op) ==
    /\ SetTree(A.tree)
    /\ widgets' = A.widgets
    /\ store' = A.store
    /\ appLog' = A.log
    /\ appCall' = AppCall(op, "none", OkR(TRUE), PointerTrace(A, op))
    /\ UNCHANGED <<crashed, lastCall, staleCalls, handlers, skin>>

CursorMoved(x, y) == SetApp(OnCursorMoved(AppOf(<<>>), x, y), "cursor_moved")

MousePressed == SetApp(OnMousePressed(AppOf(<<>>)), "mouse_pressed")

MouseReleased ==
    \E ids \in IterNodeIds(Tree) : SetApp(OnMouseReleased(AppOf(ids)), "mouse_released")

KeyboardInput(ev) ==
    \E ids \in IterNodeIds(Tree) : SetApp(OnKeyboardInput(AppOf(ids), ev), "keyboard_input")

\* ------------------------------------------------------------------------
\* Specifications
\* ------------------------------------------------------------------------
\* Tree mutation and the interaction singletons
Next ==
    \/ \E parent \in Ids \cup {None} : Add(parent, MaxSlots, MaxStaleCalls)
    \/ \E id \in Ids : Remove(id, MaxStaleCalls)
    \/ \E id \in Ids \cup {None} : SetHovered(id)
    \/ \E id \in Ids \cup {None} : SetPressed(id)
    \/ \E id \in Ids \cup {None} : SetFocused(id)
    \/ \E id \in Ids \cup {None} : SetCaptured(id)

Spec == Init /\ [][Next]_vars

\* Tree mutation alone
NextTree ==
    \/ \E parent \in Ids \cup {None} : Add(parent, TreeSlots, TreeStaleCalls)
    \/ \E id \in Ids : Remove(id, TreeStaleCalls)

SpecTree == Init /\ [][NextTree]_vars

\* Tree mutation, layout bounds and the two traversals
NextHit ==
    \/ \E parent \in Ids \cup {None} : Add(parent, TreeSlots, TreeStaleCalls)
    \/ \E id \in Ids : Remove(id, TreeStaleCalls)
    \/ \E id \in Ids, b \in BoundsInputs : SetBounds(id, b)
    \/ \E p \in Points : HitTest(p[1], p[2])
    \/ Draw

SpecHit == Init /\ [][NextHit]_vars

\* The same, for a caller that only passes ids of live nodes
NextLayout ==
    \/ \E parent \in Ids \cup {None} : Add(parent, LayoutSlots, 0)
    \/ \E id \in Ids : Remove(id, 0)
    \/ \E id \in Ids, b \in BoundsInputs : SetBounds(id, b)
    \/ \E p \in Points : HitTest(p[1], p[2])
    \/ Draw

SpecLayout == Init /\ [][NextLayout]_vars

\* The dispatcher: handlers are registered, actions dispatched, the Store
\* cleared
NextDispatch ==
    \/ \E h \in HandlerKinds : AddHandler(h)
    \/ DoDispatch
    \/ ClearStore

SpecDispatch == Init /\ [][NextDispatch]_vars

\* The Store: values are set and removed, and read back through the typed
\* getters
NextStore ==
    \/ \E key \in Keys, value \in StoreValues : SetStore(key, value)
    \/ \E key \in Keys : RemoveStore(key)
    \/ \E key \in Keys : ReadGet(key)
    \/ \E key \in Keys : ReadStr(key)
    \/ \E key \in Keys : ReadBool(key)
    \/ \E key \in Keys : ReadNumber(key)

SpecStore == Init /\ [][NextStore]_vars

\* The builder: a skin is declared part by part and built
NextBuild ==
    \/ \E shape \in PartShapes, z \in {0, 1} : DeclarePart(shape, z)
    \/ BuildSkin

SpecBuild == Init /\ [][NextBuild]_vars

\* The application: built from a skin, then driven by window events
NextApp ==
    \/ \E p \in AppPoints : CursorMoved(p[1], p[2])
    \/ MousePressed
    \/ MouseReleased
    \/ \E ev \in KeyEvents : KeyboardInput(ev)

SpecApp == InitApp /\ [][NextApp]_vars

\* The application started on a form
SpecForm == InitForm /\ [][NextApp]_vars

\* ------------------------------------------------------------------------
\* A TextInput alone: the events its on_event receives
\* ------------------------------------------------------------------------
\* Longest text typed
MaxText == 2

\* Characters a CharInput carries: a digit, a letter, a point and a tab
\* (code 9, not printable)
TextChars == {"4", "a", ".", "\t"}

\* Validation modes a skin gives a text input; the pattern is a whitelist
TextValidations ==
    {Validation("Any", <<>>), Validation("Numeric", <<>>), Validation("Alpha", <<>>),
     Validation("Alphanumeric", <<>>), Validation("Pattern", <<"4", ".">>)}

TextEvents ==
    {Event("CharInput", c) : c \in TextChars}
      \cup {Event(k, "none") : k \in {"Backspace", "Delete", "Left", "Right",
                                      "Home", "End", "Enter", "MouseMove"}}

\* create_widget of a TextInput part, with or without max_length
InitText ==
    \E max \in {None, MaxLength}, v \in TextValidations :
        /\ nodes = <<>>
        /\ free_list = <<>>
        /\ root = None
        /\ hovered = None
        /\ pressed = None
        /\ focused = None
        /\ captured = None
        /\ crashed = FALSE
        /\ lastCall = Call("new", None, None, None, <<>>)
        /\ staleCalls = 0
        /\ handlers = <<>>
        /\ store = StoreNew
        /\ appCall = AppCall("new", "none", OkR(FALSE), <<>>)
        /\ skin = SkinOf(<<>>)
        /\ widgets = CreateWidget([AppPart("TextInput", "inputs.x", <<>>, "none", <<>>, 1)
                                     EXCEPT !.max_length = max,
                                            !.validation = <<v>>]).widget
        /\ appLog = <<>>

\* <TextInput as Widget>::on_event
TextOnEvent(ev) ==
    LET r == TextInputOnEvent(widgets[1], ev)
    IN  /\ ~crashed
        /\ Len(r.w.text) <= MaxText
        /\ crashed' = r.panic
        /\ widgets' = IF r.panic THEN widgets ELSE <<r.w>>
        /\ appCall' = AppCall("on_event", ev.kind, OkR(r.ret), <<ev.c>>)
        /\ UNCHANGED <<treeVars, lastCall, staleCalls, handlers, store, skin, appLog>>

\* TextInput::clear_dirty
TextClearDirty ==
    /\ ~crashed
    /\ widgets' = <<ClearDirty(widgets[1])>>
    /\ appCall' = AppCall("clear_dirty", "none", OkR(FALSE), <<>>)
    /\ UNCHANGED <<treeVars, crashed, lastCall, staleCalls, handlers, store, skin, appLog>>

\* The texts a caller sets: ASCII, and with a character of two bytes
SetTexts == {<<>>, <<"4">>, <<"4", "a">>, <<TwoByteChar>>}

\* TextInput::set_text(text)
TextSetText(text) ==
    /\ ~crashed
    /\ widgets' = <<SetText(widgets[1], text)>>
    /\ appCall' = AppCall("set_text", "none", OkR(FALSE), text)
    /\ UNCHANGED <<treeVars, crashed, lastCall, staleCalls, handlers, store, skin, appLog>>

NextText ==
    \/ \E ev \in TextEvents : TextOnEvent(ev)
    \/ TextClearDirty
    \/ \E text \in SetTexts : TextSetText(text)

SpecText == InitText /\ [][NextText]_vars

\* ------------------------------------------------------------------------
\* The sweeps as functions of the tree they visit
\* ------------------------------------------------------------------------
\* Number of input widgets under the root
MaxInputs == 2

\* The orders in which a set of ids can be visited
Orders(S) ==
    {f \in [1 .. Cardinality(S) -> S] :
        \A i, j \in 1 .. Cardinality(S) : f[i] = f[j] => i = j}

\* The n-th input widget as the builder makes it, after events that left it
\* with a text or a checked state, and with the given dirty flag
InputWidgets(n) ==
    {[CreateWidget(AppPart(kind, binding, <<>>, "none", <<>>, n)).widget[1]
        EXCEPT !.text = IF kind = "TextInput" THEN <<DigitChar(n)>> ELSE <<>>,
               !.cursor = IF kind = "TextInput" THEN 1 ELSE 0,
               !.checked = (kind = "Checkbox" /\ n % 2 = 1),
               !.dirty = dirty] :
        kind \in {"TextInput", "Checkbox"}, binding \in Keys \cup {"none"},
        dirty \in BOOLEAN}

\* A tree of MaxInputs input widgets under a root, and a Store
InitSweep ==
    \E shapes \in [1 .. MaxInputs -> InputWidgets(0)],
       old \in {Absent, StringV(<<"2">>)} :
        LET r == Build(SkinOf([n \in 1 .. MaxInputs |->
                                 AppPart("StaticText", "none", <<>>, "none", <<>>, n)]))
            ws == [n \in 1 .. MaxInputs |->
                     CHOOSE w \in InputWidgets(n) :
                         /\ w.kind = shapes[n].kind
                         /\ w.binding = shapes[n].binding
                         /\ w.dirty = shapes[n].dirty]
        IN  /\ nodes = r.tree.nodes
            /\ free_list = r.tree.free_list
            /\ root = r.tree.root
            /\ hovered = None
            /\ pressed = None
            /\ focused = None
            /\ captured = None
            /\ crashed = FALSE
            /\ lastCall = Call("new", None, None, None, <<>>)
            /\ staleCalls = 0
            /\ handlers = <<NoScripts>>
            /\ store = [StoreNew EXCEPT !["inputs.x"] = old]
            /\ appCall = AppCall("new", "none", OkR(TRUE), <<>>)
            /\ skin = SkinOf(<<>>)
            /\ widgets = <<RootContainer>> \o ws
            /\ appLog = <<>>

\* sync_inputs_to_store, visiting the nodes in the given order
SweepInputsIn(order) == SetApp(SyncInputsToStore(AppOf(order)), "sync_inputs")

\* sync_checkboxes_to_store, visiting the nodes in the given order
SweepCheckboxesIn(order) == SetApp(SyncCheckboxesToStore(AppOf(order)), "sync_checkboxes")

NextSweep ==
    \/ \E order \in Orders({id \in Ids : Occ(Tree, id)}) : SweepInputsIn(order)
    \/ \E order \in Orders({id \in Ids : Occ(Tree, id)}) : SweepCheckboxesIn(order)

SpecSweep == InitSweep /\ [][NextSweep]_vars

\* ------------------------------------------------------------------------
\* Vocabulary of the properties
\* ------------------------------------------------------------------------
\* Node::children of an occupied node, as a sequence and as a set
Children(T, n) == IF Occ(T, n) THEN Get(T, n).children ELSE <<>>

ChildSet(T, n) == {Children(T, n)[i] : i \in 1 .. Len(Children(T, n))}

RECURSIVE ReachVia(_, _, _)
ReachVia(T, S, k) ==
    IF k = 0
    THEN S
    ELSE ReachVia(T, S \cup UNION {ChildSet(T, n) : n \in S}, k - 1)

\* The ids below `id`: its children, their children, ...
Descendants(T, id) == ReachVia(T, ChildSet(T, id), Len(T.nodes))

\* The step is a call of remove(id) that returned
RemoveReturned(id) ==
    lastCall'.op = "remove" /\ lastCall'.a = id /\ ~crashed'

\* The step is a call of add(widget, parent), which returned lastCall'.ret
AddReturned(parent) ==
    lastCall'.op = "add" /\ lastCall'.a = parent

RefOk(r) == r = None \/ Occ(Tree, r)

Cleared(r, gone) == IF r \in gone THEN None ELSE r

C2_RemovedSubtreeIsGone ==
    [][\A id \in Ids :
         (RemoveReturned(id) /\ Occ(Tree, id))
            => \A d \in {id} \cup Descendants(Tree, id) : ~Occ(Tree', d)]_vars

\* remove(0) has returned after removing node 0 and a child of it
C2_Witness ==
    /\ lastCall.op = "remove"
    /\ Len(lastCall.visited) >= 2
    /\ ~crashed
    /\ \A i \in 1 .. Len(lastCall.visited) : ~Occ(Tree, lastCall.visited[i])

\* ------------------------------------------------------------------------
\* C3: remove(id) sets to None exactly those of hovered, pressed, focused
\* and captured that name id or a node below id; the others keep their
\* value.
\* ------------------------------------------------------------------------
C3_RemoveClearsExactlyRemovedRefs ==
    [][\A id \in Ids :
         RemoveReturned(id)
            => LET gone == {id} \cup Descendants(Tree, id)
               IN  /\ hovered' = Cleared(hovered, gone)
                   /\ pressed' = Cleared(pressed, gone)
                   /\ focused' = Cleared(focused, gone)
                   /\ captured' = Cleared(captured, gone)]_vars

\* A remove has returned that cleared hovered and no other reference, while
\* focused names a node outside the removed subtree
C3_Witness ==
    /\ lastCall.op = "remove"
    /\ ~crashed
    /\ lastCall.b = 1
    /\ hovered = None
    /\ focused # None
    /\ pressed # None

\* ------------------------------------------------------------------------
\* C4: remove(id) with a vacant id changes nothing: slots, free-list, root
\* and the four singletons are as before.
\* ------------------------------------------------------------------------
C4_RemoveOfVacantIdIsNoOp ==
    [][\A id \in Ids :
         (RemoveReturned(id) /\ ~Occ(Tree, id)) => UNCHANGED treeVars]_vars

\* ------------------------------------------------------------------------
\* C5: a removed id stays stale: get(id) with the old handle never returns
\* a node added after the removal, so a vacant slot of the arena is never
\* seen occupied again through that handle.
\* ------------------------------------------------------------------------
C5_StaleHandleNeverAliases ==
    [][\A id \in Ids : ~Occ(Tree, id) => ~Occ(Tree', id)]_vars

\* ------------------------------------------------------------------------
\* C6: hit_test, draw and remove terminate on every tree add and remove can
\* build: none of them recurses without bound.
\* ------------------------------------------------------------------------
C6_TraversalsTerminate == ~crashed

\* ------------------------------------------------------------------------
\* C9: add(widget, Some(p)) with p occupied returns an id that becomes the
\* last of p's children, keeps p's earlier children in order, and creates a
\* node whose parent is p and whose children list is empty.
\* ------------------------------------------------------------------------
C9_AddAppendsToParent ==
    [][\A p \in Ids :
         (AddReturned(p) /\ Occ(Tree, p))
            => LET id == lastCall'.ret
               IN  /\ Occ(Tree', p)
                   /\ Occ(Tree', id)
                   /\ Children(Tree', p) = Append(Children(Tree, p), id)
                   /\ Get(Tree', id).parent = p
                   /\ Children(Tree', id) = <<>>]_vars

\* ------------------------------------------------------------------------
\* C10: add(widget, None) makes the new node the root iff there is no root;
\* when there is one, the root is unchanged, the new node has no parent and
\* no node reaches it (hit_test and draw never get to it).
\* ------------------------------------------------------------------------
C10_AddWithoutParent ==
    [][AddReturned(None)
         => LET id == lastCall'.ret
            IN  /\ (root' = id) <=> (root = None)
                /\ root # None
                     => /\ root' = root
                        /\ Get(Tree', id).parent = None
                        /\ \A n \in Ids : id \notin ChildSet(Tree', n)
                        /\ id \notin Descendants(Tree', root')]_vars

\* ------------------------------------------------------------------------
\* Vocabulary of the hit-test properties
\* ------------------------------------------------------------------------
\* hit_test(lastCall.a, lastCall.b) has returned lastCall.ret
HitReturned == lastCall.op = "hit_test" /\ ~crashed

\* n is occupied and its bounds contain the point
ContainsAt(T, n, x, y) == Occ(T, n) /\ Contains(Get(T, n).bounds, x, y)

\* Every node on the parent chain above n is occupied and contains the point
RECURSIVE AncestorsContain(_, _, _, _, _)
AncestorsContain(T, n, x, y, k) ==
    LET p == Get(T, n).parent
    IN  IF p = None
        THEN TRUE
        ELSE /\ k > 0
             /\ ContainsAt(T, p, x, y)
             /\ AncestorsContain(T, p, x, y, k - 1)

\* The parent chain of n leads to the root through nodes containing the point
RECURSIVE ChainToRoot(_, _, _, _, _)
ChainToRoot(T, n, x, y, k) ==
    IF n = T.root
    THEN TRUE
    ELSE LET p == Get(T, n).parent
         IN  /\ p # None
             /\ k > 0
             /\ ContainsAt(T, p, x, y)
             /\ ChainToRoot(T, p, x, y, k - 1)

\* Position of the last child of n whose bounds contain the point, 0 if none
LastContaining(T, n, x, y) ==
    LET ch == Children(T, n)
        at == {i \in 1 .. Len(ch) : ContainsAt(T, ch[i], x, y)}
    IN  IF at = {} THEN 0 ELSE CHOOSE i \in at : \A j \in at : j <= i

\* The nodes the descent goes through: n if it contains the point, then the
\* last child of n that contains it, and so on
RECURSIVE HitPath(_, _, _, _, _)
HitPath(T, n, x, y, k) ==
    IF k = 0 \/ ~ContainsAt(T, n, x, y)
    THEN {}
    ELSE LET i == LastContaining(T, n, x, y)
         IN  {n} \cup (IF i = 0
                       THEN {}
                       ELSE HitPath(T, Children(T, n)[i], x, y, k - 1))

HitPathFromRoot(T, x, y) ==
    IF T.root = None THEN {} ELSE HitPath(T, T.root, x, y, Len(T.nodes) + 1)

C8_HitTestResult ==
    HitReturned
       => LET x == lastCall.a
              y == lastCall.b
              r == lastCall.ret
          IN  /\ (r = None) <=> (root = None \/ ~ContainsAt(Tree, root, x, y))
              /\ r # None
                   => /\ ContainsAt(Tree, r, x, y)
                      /\ ChainToRoot(Tree, r, x, y, Len(nodes))
                      /\ \A c \in ChildSet(Tree, r) : ~ContainsAt(Tree, c, x, y)

\* ------------------------------------------------------------------------
\* C11: draw calls the widget draw of every node reachable from the root
\* once, in pre-order with children in list order (a node before its
\* children, the whole subtree of a child before the next child), so of two
\* overlapping children of a node on hit_test's descent, the one hit_test
\* descends into is drawn after the other.
\* ------------------------------------------------------------------------
\* draw has returned; lastCall.visited lists the ids drawn, in order
DrawReturned == lastCall.op = "draw" /\ ~crashed

\* Position of the draw of n in the drawn sequence d
DrawPos(d, n) == CHOOSE i \in 1 .. Len(d) : d[i] = n

C11_PaintOrderMatchesHitOrder ==
    DrawReturned
       => LET d == lastCall.visited
              reach == IF root = None \/ ~Occ(Tree, root)
                       THEN {}
                       ELSE {root} \cup Descendants(Tree, root)
          IN  /\ {d[i] : i \in 1 .. Len(d)} = reach
              /\ \A i, j \in 1 .. Len(d) : i # j => d[i] # d[j]
              /\ reach # {} => d[1] = root
              /\ \A n \in reach :
                   \A i, j \in 1 .. Len(Children(Tree, n)) :
                      LET A == Children(Tree, n)[i]
                          B == Children(Tree, n)[j]
                      IN  /\ DrawPos(d, n) < DrawPos(d, A)
                          /\ i < j => \A m \in {A} \cup Descendants(Tree, A) :
                                         DrawPos(d, m) < DrawPos(d, B)
              /\ \A p \in Points :
                   \A n \in HitPathFromRoot(Tree, p[1], p[2]) :
                      \A i, j \in 1 .. Len(Children(Tree, n)) :
                         LET A == Children(Tree, n)[i]
                             B == Children(Tree, n)[j]
                         IN  (/\ i < j
                              /\ ContainsAt(Tree, A, p[1], p[2])
                              /\ LastContaining(Tree, n, p[1], p[2]) = j)
                                => /\ HitTestTree(Tree, p[1], p[2])
                                        \in {B} \cup Descendants(Tree, B)
                                   /\ DrawPos(d, A) < DrawPos(d, B)

\* ------------------------------------------------------------------------
\* Vocabulary of the dispatcher properties
\* ------------------------------------------------------------------------
\* dispatch has returned appCall.ret after invoking the handlers at the
\* positions appCall.trace, in that order
DispatchReturned == appCall.op = "dispatch"

\* The step is a call of dispatch
DispatchStep == appCall'.op = "dispatch" /\ handlers' = handlers

\* <<1, 2, ..., n>>
UpTo(n) == [i \in 1 .. n |-> i]

\* The Store after handlers 1 .. n have made their writes, in order
RECURSIVE AfterWrites(_, _, _)
AfterWrites(hs, n, st) ==
    IF n = 0
    THEN st
    ELSE LET before == AfterWrites(hs, n - 1, st)
         IN  IF hs[n].key = "none"
             THEN before
             ELSE [before EXCEPT ![hs[n].key] = hs[n].val]

\* ------------------------------------------------------------------------
\* C12: dispatch invokes the handlers in registration order, each at most
\* once and without gaps, and stops at the first one that returns Ok(true):
\* every handler invoked before the last returned Ok(false), the loop only
\* ends early on Ok(true) or Err, and when the last handler invoked
\* returned Ok(true) dispatch returns Ok(true).
\* ------------------------------------------------------------------------
C12_DispatchStopsAtFirstHandled ==
    DispatchReturned
       => LET inv == appCall.trace
              n == Len(inv)
          IN  /\ n <= Len(handlers)
              /\ inv = UpTo(n)
              /\ \A i \in 1 .. n - 1 : handlers[i].ret = OkR(FALSE)
              /\ n < Len(handlers) => (n > 0 /\ handlers[n].ret # OkR(FALSE))
              /\ (n > 0 /\ handlers[n].ret = OkR(TRUE)) => appCall.ret = OkR(TRUE)
              /\ appCall.ret = OkR(TRUE) => (n > 0 /\ handlers[n].ret = OkR(TRUE))

\* dispatch over [Ok(false), Ok(true), H3] invoked the first two handlers
\* and returned Ok(true)
C12_Witness ==
    /\ DispatchReturned
    /\ Len(handlers) = 3
    /\ handlers[1].ret = OkR(FALSE)
    /\ handlers[2].ret = OkR(TRUE)
    /\ appCall.trace = <<1, 2>>
    /\ appCall.ret = OkR(TRUE)

\* ------------------------------------------------------------------------
\* C13: when the first handler that does not return Ok(false) returns
\* Err(e), dispatch returns that Err(e), invokes no later handler, and the
\* Store holds the writes of all handlers up to and including the failing
\* one.
\* ------------------------------------------------------------------------
C13_ErrAbortsDispatch ==
    [][DispatchStep
         => \A f \in 1 .. Len(handlers) :
              (/\ handlers[f].ret.kind = "Err"
               /\ \A i \in 1 .. f - 1 : handlers[i].ret = OkR(FALSE))
                 => /\ appCall'.ret = handlers[f].ret
                    /\ appCall'.trace = UpTo(f)
                    /\ store' = AfterWrites(handlers, f, store)]_vars

\* dispatch returned the Err of the second of three handlers; the writes of
\* the first and of the failing handler are in the Store
C13_Witness ==
    /\ DispatchReturned
    /\ Len(handlers) = 3
    /\ appCall.ret = ErrR("Failed")
    /\ appCall.trace = <<1, 2>>
    /\ handlers[1].key = "inputs.x"
    /\ handlers[2].key = "outputs.y"
    /\ handlers[3].key = "none"
    /\ store["inputs.x"] = handlers[1].val
    /\ store["outputs.y"] = handlers[2].val

\* ------------------------------------------------------------------------
\* C14: when every registered handler returns Ok(false), or none is
\* registered, dispatch returns Ok(false), not an ActionError, after
\* invoking every handler once.
\* ------------------------------------------------------------------------
C14_UnhandledIsOkFalse ==
    (DispatchReturned /\ \A i \in 1 .. Len(handlers) : handlers[i].ret = OkR(FALSE))
       => /\ appCall.ret = OkR(FALSE)
          /\ appCall.ret.kind # "Err"
          /\ appCall.trace = UpTo(Len(handlers))

\* dispatch went through three handlers that all returned Ok(false)
C14_Witness ==
    /\ DispatchReturned
    /\ Len(handlers) = 3
    /\ \A i \in 1 .. 3 : handlers[i].ret = OkR(FALSE)
    /\ appCall.trace = <<1, 2, 3>>
    /\ appCall.ret = OkR(FALSE)

\* ------------------------------------------------------------------------
\* Vocabulary of the builder properties
\* ------------------------------------------------------------------------
\* build(&skin) has returned appCall.ret; the tree variables hold the tree
\* it returned (the empty tree when it returned an error)
BuildReturned == appCall.op = "build"

NoTreeReturned == nodes = <<>> /\ root = None /\ widgets = <<>>

\* A part and the child parts nested in it through scroll containers
RECURSIVE Nested(_)
Nested(p) ==
    {p} \cup (IF p.part_type = "VScrollContainer" /\ p.child # <<>>
              THEN Nested(p.child[1])
              ELSE {})

\* Every part of the skin, top-level or nested
AllParts == UNION {Nested(skin.parts[i]) : i \in 1 .. Len(skin.parts)}

\* The variants that need a draw sub-section
SectionVariants ==
    {"Button", "TextInput", "VScrollContainer", "DirectoryPicker",
     "FilePicker", "Checkbox"}

LacksSection(p) == p.part_type \in SectionVariants /\ p.section = <<>>

\* The asset keys the part's variant requires
RequiredKeys(p) ==
    IF p.part_type = "Image"
    THEN {p.asset}
    ELSE IF p.part_type \in SectionVariants /\ p.section # <<>>
    THEN {p.section[1][i] : i \in 1 .. Len(p.section[1])}
    ELSE {}

MissingKeys(p) == RequiredKeys(p) \ Images

\* ------------------------------------------------------------------------
\* C15 as stated: whenever some part of the skin, top-level or nested in a
\* scroll container, references a required asset key that the asset map
\* lacks, build returns Err(AssetNotFound) and no tree.
\* ------------------------------------------------------------------------
C15_MissingAssetIsAssetNotFound ==
    (BuildReturned /\ \E p \in AllParts : MissingKeys(p) # {})
       => /\ appCall.ret = ErrR("AssetNotFound")
          /\ NoTreeReturned

\* ------------------------------------------------------------------------
\* C15 as amended: whenever some part of the skin, top-level or nested in a
\* scroll container, references a required asset key that the asset map
\* lacks, build returns an Err and no tree; the Err is AssetNotFound, with
\* one of the missing keys, unless some part lacks a required draw
\* sub-section, in which case it is AssetNotFound or MissingDrawSection.
\* ------------------------------------------------------------------------
C15_MissingAssetFailsBuild ==
    (BuildReturned /\ \E p \in AllParts : MissingKeys(p) # {})
       => /\ appCall.ret \in {ErrR("AssetNotFound"), ErrR("MissingDrawSection")}
          /\ NoTreeReturned
          /\ (\A p \in AllParts : ~LacksSection(p))
                => /\ appCall.ret = ErrR("AssetNotFound")
                   /\ \E p \in AllParts : appCall.a \in MissingKeys(p)

\* build failed with AssetNotFound on the child nested in the second part,
\* after the first part had been built
C15_Witness ==
    /\ BuildReturned
    /\ Len(skin.parts) = 2
    /\ skin.parts[1].z <= skin.parts[2].z
    /\ skin.parts[1].part_type = "StaticText"
    /\ skin.parts[2].part_type = "VScrollContainer"
    /\ skin.parts[2].child # <<>>
    /\ MissingKeys(skin.parts[2]) = {}
    /\ MissingKeys(skin.parts[2].child[1]) # {}
    /\ appCall.ret = ErrR("AssetNotFound")
    /\ appCall.a = "gone"
    /\ NoTreeReturned

\* ------------------------------------------------------------------------
\* C16 as stated: whenever some part's variant requires a draw sub-section
\* and the part lacks it, build returns Err(MissingDrawSection) and no
\* tree.
\* ------------------------------------------------------------------------
C16_MissingSectionIsMissingDrawSection ==
    (BuildReturned /\ \E p \in AllParts : LacksSection(p))
       => /\ appCall.ret = ErrR("MissingDrawSection")
          /\ NoTreeReturned

\* ------------------------------------------------------------------------
\* C16 as amended: whenever some part's variant requires a draw sub-section
\* and the part lacks it, build returns an Err and no tree; the Err is
\* MissingDrawSection unless some part references a required asset key that
\* the asset map lacks, in which case it is MissingDrawSection or
\* AssetNotFound.
\* ------------------------------------------------------------------------
C16_MissingSectionFailsBuild ==
    (BuildReturned /\ \E p \in AllParts : LacksSection(p))
       => /\ appCall.ret \in {ErrR("MissingDrawSection"), ErrR("AssetNotFound")}
          /\ NoTreeReturned
          /\ (\A p \in AllParts : MissingKeys(p) = {})
                => appCall.ret = ErrR("MissingDrawSection")

\* build failed with MissingDrawSection on a Checkbox without its draw
\* section, after an Image part had been built
C16_Witness ==
    /\ BuildReturned
    /\ Len(skin.parts) = 2
    /\ skin.parts[1].part_type = "Image"
    /\ skin.parts[1].z = 0
    /\ MissingKeys(skin.parts[1]) = {}
    /\ skin.parts[2].part_type = "Checkbox"
    /\ skin.parts[2].z = 1
    /\ LacksSection(skin.parts[2])
    /\ appCall.ret = ErrR("MissingDrawSection")
    /\ appCall.a = skin.parts[2].id
    /\ NoTreeReturned

\* ------------------------------------------------------------------------
\* C17: after a successful build the children of the root are the parts in
\* ascending z, and parts of equal z are in declaration order.
\* ------------------------------------------------------------------------
\* build has returned Ok
BuildSucceeded == BuildReturned /\ appCall.ret.kind = "Ok"

\* Position in the declaration of the part that node id was built from
DeclaredAt(id) ==
    CHOOSE k \in 1 .. Len(skin.parts) : skin.parts[k].id = widgets[id + 1].part

C17_ChildrenInStableZOrder ==
    BuildSucceeded
       => LET ch == Children(Tree, root)
          IN  /\ Len(ch) = Len(skin.parts)
              /\ \A i \in 1 .. Len(ch) :
                   \E k \in 1 .. Len(skin.parts) :
                      skin.parts[k].id = widgets[ch[i] + 1].part
              /\ \A i, j \in 1 .. Len(ch) :
                   i < j => LET a == DeclaredAt(ch[i])
                                b == DeclaredAt(ch[j])
                            IN  \/ skin.parts[a].z < skin.parts[b].z
                                \/ skin.parts[a].z = skin.parts[b].z /\ a < b

\* build succeeded on two parts of equal z; they are the children of the
\* root in declaration order
C17_Witness ==
    /\ BuildSucceeded
    /\ Len(skin.parts) = 2
    /\ skin.parts[1].z = 1
    /\ skin.parts[2].z = 1
    /\ Len(Children(Tree, root)) = 2
    /\ widgets[Children(Tree, root)[1] + 1].part = skin.parts[1].id
    /\ widgets[Children(Tree, root)[2] + 1].part = skin.parts[2].id

\* ------------------------------------------------------------------------
\* C18: after a successful build the root has the bounds (0, 0,
\* window.width, window.height) and one child per top-level part, with the
\* part's (x, y, width, height) as bounds; nested child parts sit in the
\* widget of their scroll container and are no tree nodes, so the tree has
\* 1 + (number of top-level parts) occupied slots.
\* ------------------------------------------------------------------------
C18_BuiltTreeShape ==
    BuildSucceeded
       => LET ch == Children(Tree, root)
              occupied == {id \in Ids : Occ(Tree, id)}
          IN  /\ root # None /\ Occ(Tree, root)
              /\ Get(Tree, root).bounds = Rect(0, 0, skin.window.width, skin.window.height)
              /\ Get(Tree, root).parent = None
              /\ Len(ch) = Len(skin.parts)
              /\ \A i, j \in 1 .. Len(ch) : i # j => ch[i] # ch[j]
              /\ \A k \in 1 .. Len(skin.parts) :
                   \E i \in 1 .. Len(ch) :
                      LET p == skin.parts[k]
                          n == Get(Tree, ch[i])
                          w == widgets[ch[i] + 1]
                      IN  /\ w.part = p.id
                          /\ n.bounds = Rect(p.x, p.y, p.width, p.height)
                          /\ n.parent = root
                          /\ n.children = <<>>
                          /\ (p.part_type = "VScrollContainer" /\ p.child # <<>>)
                                => /\ w.child # <<>>
                                   /\ w.child[1].part = p.child[1].id
              /\ Cardinality(occupied) = 1 + Len(skin.parts)
              /\ occupied = {root} \cup {ch[i] : i \in 1 .. Len(ch)}

\* build succeeded on a scroll container with a nested child and one more
\* part: three nodes, the nested child is in the container's widget
C18_Witness ==
    /\ BuildSucceeded
    /\ Len(skin.parts) = 2
    /\ skin.parts[1].part_type = "VScrollContainer"
    /\ skin.parts[1].child # <<>>
    /\ skin.parts[2].part_type = "TextInput"
    /\ Len(nodes) = 3
    /\ \E id \in Ids : /\ widgets[id + 1].child # <<>>
                        /\ Get(Tree, id).bounds = Rect(1, skin.parts[1].z,
                                                       1 + skin.parts[1].z, 1)

\* ------------------------------------------------------------------------
\* Vocabulary of the reconciliation sweeps
\* ------------------------------------------------------------------------
\* The steps of the last on_event that ran operation op
StepsOf(op) == {appLog[i] : i \in {j \in DOMAIN appLog : appLog[j].op = op}}

\* The TextInput nodes with a binding key that a step found dirty
DirtyInputs(s) ==
    {n \in DOMAIN s.ws0 : /\ Occ(Tree, n - 1)
                          /\ s.ws0[n].kind = "TextInput"
                          /\ s.ws0[n].dirty
                          /\ s.ws0[n].binding # "none"}

\* The StaticTexts with a binding key: <<n, 0>> is the widget of node n - 1,
\* <<n, 1>> the child widget nested in it
WidgetAt(ws, path) == IF path[2] = 0 THEN ws[path[1]] ELSE ws[path[1]].child[1]

BoundOutputs(ws) ==
    {path \in (DOMAIN ws) \X {0, 1} :
        /\ path[2] = 1 => ws[path[1]].child # <<>>
        /\ WidgetAt(ws, path).kind = "StaticText"
        /\ WidgetAt(ws, path).binding # "none"}

\* C19: after sync_inputs_to_store, for every TextInput node that was dirty
\* and has a binding key k, get_string(k) is the widget's current text and
\* its dirty flag is false; a widget that was not dirty causes no write to
\* the Store
C19_InputsSweepWritesDirtyInputs ==
    \A s \in StepsOf("sync_inputs") :
        /\ \A n \in DirtyInputs(s) :
              /\ GetString(s.st1, s.ws0[n].binding) = s.ws1[n].text
              /\ ~s.ws1[n].dirty
        /\ \A j \in DOMAIN s.wrote : s.ws0[s.wrote[j] + 1].dirty
        /\ \A k \in Keys :
              s.st1[k] # s.st0[k] => \E n \in DirtyInputs(s) : s.ws0[n].binding = k

\* A sweep wrote the text of a dirty input while another input on the same
\* key, not dirty, held a different text
C19_Witness ==
    \E s \in StepsOf("sync_inputs") :
        /\ s.st1 # s.st0
        /\ \E n \in DirtyInputs(s), m \in DOMAIN s.ws0 :
              /\ s.ws0[m].kind = "TextInput"
              /\ ~s.ws0[m].dirty
              /\ s.ws0[m].binding = s.ws0[n].binding
              /\ s.ws0[m].text # s.ws1[n].text
              /\ s.ws1[n].text # <<>>

\* C20: sync_store_to_outputs overwrites the content of a bound StaticText
\* with the string representation of its key exactly if the representation
\* is non-empty and differs from the content, writes nothing when it equals
\* the content, and leaves every bound StaticText whose key has a non-empty
\* representation displaying that representation
C20_OutputsSweepShowsTheStore ==
    \A s \in StepsOf("sync_outputs") :
        \A path \in BoundOutputs(s.ws0) :
            LET w0 == WidgetAt(s.ws0, path)
                w1 == WidgetAt(s.ws1, path)
                value == GetString(s.st0, w0.binding)
                written == path[2] = 0 /\ \E j \in DOMAIN s.wrote : s.wrote[j] = path[1] - 1
            IN  /\ written <=> (value # <<>> /\ value # w0.text)
                /\ written => w1.text = value
                /\ ~written => w1.text = w0.text
                /\ value # <<>> => w1.text = value

\* The same for the StaticTexts that are the widget of a node
C20_NodeOutputsShowTheStore ==
    \A s \in StepsOf("sync_outputs") :
        \A path \in BoundOutputs(s.ws0) :
            path[2] = 0 =>
                LET w0 == WidgetAt(s.ws0, path)
                    w1 == WidgetAt(s.ws1, path)
                    value == GetString(s.st0, w0.binding)
                    written == \E j \in DOMAIN s.wrote : s.wrote[j] = path[1] - 1
                IN  /\ written <=> (value # <<>> /\ value # w0.text)
                    /\ written => w1.text = value
                    /\ ~written => w1.text = w0.text
                    /\ value # <<>> => w1.text = value

\* C21: sync_store_to_outputs never replaces the content of a StaticText
\* with the empty string: when the bound key is missing, Null or an empty
\* String the widget keeps its content, so a value once displayed stays
\* displayed after the key has become empty
C21_OutputsSweepKeepsContentOnEmpty ==
    \A s \in StepsOf("sync_outputs") :
        \A path \in BoundOutputs(s.ws0) :
            LET w0 == WidgetAt(s.ws0, path)
                w1 == WidgetAt(s.ws1, path)
                v == s.st0[w0.binding]
            IN  /\ (v.tag \in {"Absent", "Null"} \/ (v.tag = "String" /\ v.s = <<>>))
                      => w1.text = w0.text
                /\ w0.text # <<>> => w1.text # <<>>

\* A sweep met a StaticText node that displays a value its key once held,
\* while the key now holds the empty String
C21_Witness ==
    \E s \in StepsOf("sync_outputs") :
        \E path \in BoundOutputs(s.ws0) :
            LET w0 == WidgetAt(s.ws0, path)
                v == s.st0[w0.binding]
            IN  /\ path[2] = 0
                /\ v.tag = "String"
                /\ v.s = <<>>
                /\ w0.text \in {<<"4">>, <<"2">>}
                /\ WidgetAt(s.ws1, path).text = w0.text

\* The input widgets with a binding key have pairwise distinct keys
DistinctKeys(ws) ==
    \A i, j \in DOMAIN ws :
        (/\ i # j
         /\ ws[i].kind \in {"TextInput", "Checkbox"}
         /\ ws[j].kind \in {"TextInput", "Checkbox"}
         /\ ws[i].binding # "none")
            => ws[i].binding # ws[j].binding

\* C22: in a tree whose bound input widgets have pairwise distinct binding
\* keys, a sweep into the Store leaves the same Store and the same widgets
\* (dirty flags included) in whatever order it visits the nodes
C22_InputsSweepOrderIrrelevant ==
    \A i \in DOMAIN appLog :
        LET s == appLog[i]
        IN  DistinctKeys(s.ws0) =>
                \A order \in Orders({id \in Ids : Occ(Tree, id)}) :
                    LET r == IF s.op = "sync_inputs"
                             THEN SweepInputs(Tree, s.ws0, s.st0, order, <<>>)
                             ELSE SweepCheckboxes(Tree, s.ws0, s.st0, order, <<>>)
                    IN  /\ r.store = s.st1
                        /\ r.widgets = s.ws1

\* A sweep over two dirty text inputs bound to different keys wrote both
\* keys, visiting the later node first
C22_Witness ==
    \E s \in StepsOf("sync_inputs") :
        /\ DistinctKeys(s.ws0)
        /\ Len(s.wrote) = 2
        /\ s.wrote[1] > s.wrote[2]
        /\ s.st1["inputs.x"] # s.st0["inputs.x"]
        /\ s.st1["outputs.y"] # s.st0["outputs.y"]

\* The Value a read found under its key (reads leave the Store as it was)
ReadValue == store[appCall.a]

\* The decimal numerals: an optional minus sign, digits, and optionally a
\* point and digits, with at least one digit in all; each with its value
Numerals ==
    LET DigitStrings ==
            UNION {[1 .. k -> {c \in StoreChars : IsDigit(c)}] : k \in 0 .. MaxStrLen}
        Shapes ==
            {p \in {<<>>, <<"-">>} \X DigitStrings \X {<<>>, <<".">>} \X DigitStrings :
                /\ Len(p[2]) + Len(p[4]) >= 1
                /\ p[3] = <<>> => p[4] = <<>>}
    IN  {[s |-> p[1] \o p[2] \o p[3] \o p[4],
          value |-> Decimal((IF p[1] = <<>> THEN 1 ELSE 0 - 1)
                              * (NatOf(p[2]) * Pow10(Len(p[4])) + NatOf(p[4])),
                            Pow10(Len(p[4])))] : p \in Shapes}

\* C23 as stated: get_number returns None whenever the key is absent or the
\* stored Value is not a Number, and Some(n) only for a stored Number(n)
C23_GetNumberOnlyOfNumbers ==
    appCall.op = "get_number" =>
        /\ ReadValue.tag # "Number" => ~appCall.ret.v
        /\ appCall.ret.v =>
               /\ ReadValue.tag = "Number"
               /\ appCall.trace = <<Decimal(ReadValue.n, 10).num, Decimal(ReadValue.n, 10).den>>

\* C23 amended: get_number returns None when the key is absent, when the
\* stored Value is Null or Bool, and when it is a String that is not a
\* decimal numeral; it returns Some(n) for a stored Number(n) and for a
\* stored String that is a numeral of value n
C23_GetNumberParsesStrings ==
    appCall.op = "get_number" =>
        IF ReadValue.tag = "Number"
        THEN /\ appCall.ret.v
             /\ appCall.trace = <<Decimal(ReadValue.n, 10).num, Decimal(ReadValue.n, 10).den>>
        ELSE IF ReadValue.tag = "String" /\ \E m \in Numerals : m.s = ReadValue.s
        THEN /\ appCall.ret.v
             /\ \A m \in Numerals :
                    m.s = ReadValue.s => appCall.trace = <<m.value.num, m.value.den>>
        ELSE ~appCall.ret.v

\* get_number has returned Some for a stored String with a fraction
C23_Witness ==
    /\ appCall.op = "get_number"
    /\ ReadValue.tag = "String"
    /\ appCall.ret.v
    /\ appCall.trace[2] = 10

\* C24: the typed reads never fail and never modify the Store; get_str
\* returns the stored string for a String and the empty string for a missing
\* key or any other type, get_bool the stored flag for a Bool and false
\* otherwise, get None for a missing key
C24_TypedReadsDefault ==
    /\ [](/\ appCall.op = "get_str" =>
                appCall.trace = IF ReadValue.tag = "String" THEN ReadValue.s ELSE <<>>
          /\ appCall.op = "get_bool" =>
                appCall.ret = OkR(ReadValue.tag = "Bool" /\ ReadValue.b)
          /\ appCall.op = "get" =>
                /\ ReadValue.tag = "Absent" => ~appCall.ret.v
                /\ ReadValue.tag # "Absent" => appCall.ret.v /\ appCall.trace = <<ReadValue>>)
    /\ [][appCall'.op \in {"get", "get_str", "get_bool", "get_number"} =>
              /\ store' = store
              /\ crashed' = crashed
              /\ appCall'.ret.kind = "Ok"]_vars

\* get_str has answered with the empty string for a stored Number
C24_Witness ==
    /\ appCall.op = "get_str"
    /\ ReadValue.tag = "Number"
    /\ appCall.trace = <<>>

\* The reasons for which a TextInput refuses a character
NotPrintable(c) == c \notin AsciiDigits \cup AsciiLetters \cup AsciiPunctuation

RefusedByMode(w, c) ==
    \/ w.validation.mode = "Numeric" /\ c \notin AsciiDigits
    \/ w.validation.mode = "Alpha" /\ c \notin AsciiLetters
    \/ w.validation.mode = "Alphanumeric" /\ c \notin AsciiDigits \cup AsciiLetters
    \/ w.validation.mode = "Pattern"
           /\ c \notin {w.validation.pattern[i] : i \in DOMAIN w.validation.pattern}

Full(w) == w.max_length # None /\ Len(w.text) = w.max_length

\* C25: a CharInput whose character is not printable, is refused by the
\* validation mode or arrives at a full text is a no-op: on_event returns
\* false and text, cursor and dirty flag are unchanged
C25_RejectedCharIsNoOp ==
    [][(/\ appCall'.op = "on_event"
        /\ appCall'.a = "CharInput"
        /\ \/ NotPrintable(appCall'.trace[1])
           \/ RefusedByMode(widgets[1], appCall'.trace[1])
           \/ Full(widgets[1]))
       => /\ appCall'.ret = OkR(FALSE)
          /\ widgets'[1].text = widgets[1].text
          /\ widgets'[1].cursor = widgets[1].cursor
          /\ widgets'[1].dirty = widgets[1].dirty]_vars

\* A dirty text input with a text has refused a printable character for its
\* validation mode
C25_Witness ==
    /\ appCall.op = "on_event"
    /\ appCall.a = "CharInput"
    /\ appCall.ret = OkR(FALSE)
    /\ ~NotPrintable(appCall.trace[1])
    /\ RefusedByMode(widgets[1], appCall.trace[1])
    /\ ~Full(widgets[1])
    /\ widgets[1].text # <<>>
    /\ widgets[1].dirty

\* The occupied slots of the arena
Occupied(T) == {id \in 0 .. (Len(T.nodes) - 1) : Occ(T, id)}

\* ------------------------------------------------------------------------
\* C26: add never returns the id of a slot occupied at the call and never
\* overwrites a live node: after any sequence of add and remove, repeated
\* remove of one id included, the free-list holds only indices of vacant
\* slots, each at most once, and every add raises the number of occupied
\* slots by one.
\* ------------------------------------------------------------------------
C26_AddNeverReusesALiveSlot ==
    /\ [](/\ \A i \in DOMAIN free_list : ~Occ(Tree, free_list[i])
          /\ \A i, j \in DOMAIN free_list : free_list[i] = free_list[j] => i = j)
    /\ [][\A p \in Ids \cup {None} :
            AddReturned(p)
               => /\ ~Occ(Tree, lastCall'.ret)
                  /\ Cardinality(Occupied(Tree')) = Cardinality(Occupied(Tree)) + 1]_vars

\* The ids reached from `id` by following parent fields, at most as many
\* steps as there are slots
RECURSIVE ParentChain(_, _, _)
ParentChain(T, id, k) ==
    IF k = 0 \/ ~Occ(T, id) \/ Get(T, id).parent = None
    THEN {}
    ELSE {Get(T, id).parent} \cup ParentChain(T, Get(T, id).parent, k - 1)

\* ------------------------------------------------------------------------
\* C27: the parent relation is acyclic in every state add and remove reach,
\* add under a previously removed parent id included: no node is its own
\* parent, child or ancestor.
\* ------------------------------------------------------------------------
C27_ParentRelationAcyclic ==
    \A id \in Occupied(Tree) :
        /\ Get(Tree, id).parent # id
        /\ id \notin ChildSet(Tree, id)
        /\ id \notin Descendants(Tree, id)
        /\ id \notin ParentChain(Tree, id, Len(nodes))

\* How often id occurs in the sequence s
Count(s, id) == Cardinality({i \in DOMAIN s : s[i] = id})

\* ------------------------------------------------------------------------
\* C28: parent and child edges agree in every state add and remove reach:
\* every id in an occupied node's children names an occupied node whose
\* parent is that node, and every occupied node with parent Some(p) is
\* exactly once in the children of an occupied p; remove(id) deletes id
\* from its former parent's children and keeps the order of the others.
\* ------------------------------------------------------------------------
C28_ParentAndChildEdgesAgree ==
    /\ [](\A n \in Occupied(Tree) :
            /\ \A c \in ChildSet(Tree, n) : Occ(Tree, c) /\ Get(Tree, c).parent = n
            /\ Get(Tree, n).parent # None
                 => /\ Occ(Tree, Get(Tree, n).parent)
                    /\ Count(Children(Tree, Get(Tree, n).parent), n) = 1)
    /\ [][\A id \in Ids :
            (RemoveReturned(id) /\ Occ(Tree, id) /\ Get(Tree, id).parent # None
                /\ Occ(Tree', Get(Tree, id).parent))
               => Children(Tree', Get(Tree, id).parent)
                    = Retain(Children(Tree, Get(Tree, id).parent), id)]_vars

\* ------------------------------------------------------------------------
\* C29: after any sequence of add and remove, root is None or names an
\* occupied slot; remove(root) removes every node reachable from the root
\* and sets root to None, and the next add without a parent becomes the
\* new root.
\* ------------------------------------------------------------------------
C29_RootIsNoneOrOccupied ==
    /\ [](root = None \/ Occ(Tree, root))
    /\ [][\A id \in Ids :
            (RemoveReturned(id) /\ id = root)
               => /\ root' = None
                  /\ \A d \in {id} \cup Descendants(Tree, id) : ~Occ(Tree', d)]_vars
    /\ [][(AddReturned(None) /\ root = None)
            => /\ root' = lastCall'.ret
               /\ Occ(Tree', root')]_vars

\* A tree whose root had a child was removed by remove(root), and the add
\* without a parent that followed is the new root
C29_Witness ==
    /\ lastCall.op = "add"
    /\ lastCall.a = None
    /\ root = lastCall.ret
    /\ Len(free_list) >= 1
    /\ Cardinality(Occupied(Tree)) = 1

\* The on_event call of this step delivered a Click, dispatched an action
Clicked == StepsOf("click") # {}

Dispatched == StepsOf("dispatch") # {}

\* C30 as stated: a widget receives Click, and its button action is
\* dispatched, only on a mouse release at which the pressed node equals the
\* hovered node; if between press and release the pointer moved onto a
\* different node or off every node, no Click is delivered and no action is
\* dispatched for that press
C30_NoClickAfterLeaving ==
    [][/\ Clicked' /\ appLog' # appLog
            => appCall'.op = "mouse_released" /\ pressed # None /\ hovered = pressed
       /\ Dispatched' /\ appLog' # appLog => Clicked'
       /\ (appCall'.op = "mouse_released" /\ Len(appCall.trace) = 2 /\ pressed = appCall.trace[1])
            => ~Clicked' /\ ~Dispatched']_vars

\* C30 amended: a widget receives Click, and its button action is
\* dispatched, only on a mouse release at which the pressed node equals the
\* hovered node, and on such a release the pressed node does receive Click;
\* if at the release the pointer is on a different node or off every node,
\* no Click is delivered and no action is dispatched for that press
C30_ClickOnlyOverPressedNode ==
    [][/\ Clicked' /\ appLog' # appLog
            => appCall'.op = "mouse_released" /\ pressed # None /\ hovered = pressed
       /\ Dispatched' /\ appLog' # appLog => Clicked'
       /\ (appCall'.op = "mouse_released" /\ pressed # None /\ hovered = pressed)
            => \E s \in StepsOf("click")' : s.wrote = <<pressed>>
       /\ (appCall'.op = "mouse_released" /\ hovered # pressed)
            => ~Clicked' /\ ~Dispatched'
       /\ appCall'.op = "mouse_released" => pressed' = None]_vars

\* The button was pressed, the pointer left it and came back, and the
\* release delivered the Click and dispatched the button's action
C30_Witness ==
    /\ appCall.op = "mouse_released"
    /\ Len(appCall.trace) = 2
    /\ \E s \in StepsOf("click") : s.wrote = <<appCall.trace[1]>>
    /\ Dispatched

\* ------------------------------------------------------------------------
\* C31: after on_event has processed a mouse release pressed is None,
\* whatever the click and the dispatched action did; pressed becomes Some
\* only by a press over a hovered node and stays so until the next release.
\* ------------------------------------------------------------------------
C31_ReleaseClearsPressed ==
    [][/\ appCall'.op = "mouse_released" => pressed' = None
       /\ (pressed' # None /\ pressed' # pressed)
            => appCall'.op = "mouse_pressed" /\ hovered # None /\ pressed' = hovered
       /\ (pressed # None /\ pressed' = None) => appCall'.op = "mouse_released"]_vars

\* A release has clicked a button whose action handler failed, and pressed
\* is None
C31_Witness ==
    /\ appCall.op = "mouse_released"
    /\ Dispatched
    /\ \E i \in DOMAIN handlers : handlers[i].ret.kind = "Err"
    /\ pressed = None

\* The widget events the on_event call of this step sent, in order: the
\* operation and the node of each
Sent(log) == [i \in DOMAIN log |-> <<log[i].op, log[i].wrote>>]

\* ------------------------------------------------------------------------
\* C32: every mouse press makes focused equal to hovered (None when nothing
\* is hovered); when the focus changes, the widget focused before receives
\* FocusLost before the newly focused one receives FocusGained, and a press
\* on the node already focused delivers neither.
\* ------------------------------------------------------------------------
C32_PressMovesFocus ==
    [][appCall'.op = "mouse_pressed"
         => /\ focused' = hovered
            /\ Sent(appLog') =
                 IF focused = hovered
                 THEN <<>>
                 ELSE (IF focused # None THEN <<<<"FocusLost", <<focused>>>>>> ELSE <<>>)
                        \o (IF hovered # None THEN <<<<"FocusGained", <<hovered>>>>>> ELSE <<>>)]_vars

\* A press has moved the focus from one node to another: two events sent
C32_Witness ==
    /\ appCall.op = "mouse_pressed"
    /\ Len(appLog) = 2
    /\ appLog[1].op = "FocusLost"
    /\ appLog[2].op = "FocusGained"
    /\ appLog[2].wrote = <<focused>>
    /\ appLog[1].wrote # appLog[2].wrote

\* The TextInputs with a binding key
BoundInputs(ws) == {n \in DOMAIN ws : ws[n].kind = "TextInput" /\ ws[n].binding # "none"}

\* ------------------------------------------------------------------------
\* C33: a key event reaches the focused node only, and when on_event
\* returns no TextInput is dirty: the Store holds under the key of every
\* bound TextInput its current text, provided the keys are distinct and no
\* action handler overwrote the key since the edit.
\* ------------------------------------------------------------------------
C33_KeyEventsAreSweptIntoTheStore ==
    /\ [](\A n \in DOMAIN widgets : widgets[n].kind = "TextInput" => ~widgets[n].dirty)
    /\ [](\A n \in BoundInputs(widgets) :
            (/\ DistinctKeys(widgets)
             /\ \A i \in DOMAIN handlers : handlers[i].key # widgets[n].binding)
               => GetString(store, widgets[n].binding) = widgets[n].text)
    /\ [][appCall'.op = "keyboard_input"
            => /\ \A n \in DOMAIN widgets : n # focused + 1 => widgets'[n] = widgets[n]
               /\ \A n \in BoundInputs(widgets) :
                    (DistinctKeys(widgets) /\ widgets'[n].text # widgets[n].text)
                       => GetString(store', widgets[n].binding) = widgets'[n].text]_vars

\* A key event has edited a text input whose key an action handler had
\* overwritten, and the sweep wrote the new text over the handler's value
C33_Witness ==
    /\ appCall.op = "keyboard_input"
    /\ \E s \in StepsOf("sync_inputs") :
          /\ s.wrote = <<focused>>
          /\ s.st0[widgets[focused + 1].binding] = StringV(StrA)
          /\ s.st1[widgets[focused + 1].binding] = StringV(widgets[focused + 1].text)

\* The operations of an on_event call, in order
Ops(log) == [i \in DOMAIN log |-> log[i].op]

\* The release of this step clicks a button whose action goes to the
\* dispatcher
ButtonClick ==
    /\ appCall'.op = "mouse_released"
    /\ pressed # None
    /\ hovered = pressed
    /\ widgets[pressed + 1].kind = "SkinButton"
    /\ widgets[pressed + 1].action \notin {"none", "launch_selected_app"}

\* What a click on a button with an action does, for the bound StaticTexts
\* at the given paths: the sweeps and the dispatch follow one another, each
\* starting from what the one before left, and the StaticTexts show the
\* non-empty representation of their keys afterwards
SweepsAroundDispatch(paths) ==
    /\ Ops(appLog') = <<"click", "sync_checkboxes", "sync_inputs", "dispatch",
                        "sync_outputs">>
    /\ appLog'[4].st0 = appLog'[3].st1
    /\ appLog'[4].ws0 = appLog'[3].ws1
    /\ \A n \in BoundInputs(widgets) :
          (DistinctKeys(widgets) /\ widgets[n].dirty)
             => GetString(appLog'[4].st0, widgets[n].binding) = widgets[n].text
    /\ appLog'[5].st0 = appLog'[4].st1
    /\ store' = appLog'[4].st1
    /\ \A path \in paths :
          LET value == GetString(store', WidgetAt(widgets, path).binding)
          IN  value # <<>> => WidgetAt(widgets', path).text = value

\* ------------------------------------------------------------------------
\* C34: on a click on a button with an action the inputs are swept into the
\* Store before any handler runs and the Store is swept into the outputs
\* after dispatch returns, an error included: the handlers find the text of
\* every bound dirty TextInput in the Store, and every bound StaticText
\* shows what the handlers wrote when on_event returns.
\* ------------------------------------------------------------------------
C34_SweepsAroundDispatch ==
    [][ButtonClick => SweepsAroundDispatch(BoundOutputs(widgets))]_vars

\* The same for the StaticTexts that are the widget of a node
C34_SweepsAroundDispatchAtNodes ==
    [][ButtonClick
         => SweepsAroundDispatch({path \in BoundOutputs(widgets) : path[2] = 0})]_vars

\* The release of this step clicks a Checkbox
CheckboxClick ==
    /\ appCall'.op = "mouse_released"
    /\ pressed # None
    /\ hovered = pressed
    /\ widgets[pressed + 1].kind = "Checkbox"

\* The dispatch steps of the call that ends in this step
DispatchSteps == {j \in DOMAIN appLog' : appLog'[j].op = "dispatch"}

\* What a click on a Checkbox does up to the dispatch of its action: the
\* Click inverts is_checked and sets dirty, the checkbox sweep writes the new
\* state under the binding key and clears dirty, and the action is dispatched
\* on the Store that holds the new state
ClickTogglesAndWrites ==
    LET n == pressed + 1
        w == widgets[n]
        w1 == widgets'[n]
    IN  /\ appLog'[1].op = "click"
        /\ appLog'[1].ws1[n].checked = ~w.checked
        /\ appLog'[1].ws1[n].dirty
        /\ appLog'[2].op = "sync_checkboxes"
        /\ w1.checked = ~w.checked
        /\ ~w1.dirty
        /\ w.binding # "none" => GetBool(appLog'[2].st1, w.binding) = w1.checked
        /\ (w.action # "none") <=> (DispatchSteps # {})
        /\ \A j \in DispatchSteps :
              /\ j > 2
              /\ w.binding # "none" => GetBool(appLog'[j].st0, w.binding) = w1.checked

\* ------------------------------------------------------------------------
\* C35: a Click inverts is_checked of a Checkbox and sets dirty; after
\* on_event has processed a click release on a Checkbox with binding k,
\* get_bool(k) is the new checked state, the negation of the state before
\* the click, and dirty is false; the checkbox's action is dispatched after
\* that Store write.
\* ------------------------------------------------------------------------
C35_CheckboxClickReachesTheStore ==
    [][CheckboxClick
         => /\ ClickTogglesAndWrites
            /\ widgets[pressed + 1].binding # "none"
                  => GetBool(store', widgets[pressed + 1].binding)
                        = widgets'[pressed + 1].checked]_vars

\* C35 as the code has it: when on_event returns, get_bool(k) is the new
\* checked state unless a handler of the checkbox's action has written k
C35_CheckboxClickReachesHandlers ==
    [][CheckboxClick
         => /\ ClickTogglesAndWrites
            /\ (/\ widgets[pressed + 1].binding # "none"
                /\ \A j \in DispatchSteps :
                      appLog'[j].st1[widgets[pressed + 1].binding]
                         = appLog'[j].st0[widgets[pressed + 1].binding])
                  => GetBool(store', widgets[pressed + 1].binding)
                        = widgets'[pressed + 1].checked]_vars

\* A click has checked a bound Checkbox with an action: the Store held true
\* when the handler ran, and the handler left the key alone
C35_Witness ==
    /\ appCall.op = "mouse_released"
    /\ Len(appLog) >= 4
    /\ appLog[1].op = "click"
    /\ appLog[4].op = "dispatch"
    /\ \E n \in DOMAIN widgets :
          /\ appLog[1].wrote = <<n - 1>>
          /\ widgets[n].kind = "Checkbox"
          /\ widgets[n].binding # "none"
          /\ widgets[n].checked
          /\ ~appLog[1].ws0[n].checked
          /\ appLog[4].st0[widgets[n].binding] = BoolV(TRUE)
          /\ store[widgets[n].binding] = BoolV(TRUE)

\* The widgets a sweep step is about, TextInputs or Checkboxes, that were
\* dirty when it started, without and with a binding key
SweptKind(s) == IF s.op = "sync_inputs" THEN "TextInput" ELSE "Checkbox"

DirtyUnbound(s) ==
    {n \in DOMAIN s.ws0 :
        s.ws0[n].kind = SweptKind(s) /\ s.ws0[n].dirty /\ s.ws0[n].binding = "none"}

DirtyBound(s) ==
    {n \in DOMAIN s.ws0 :
        s.ws0[n].kind = SweptKind(s) /\ s.ws0[n].dirty /\ s.ws0[n].binding # "none"}

\* ------------------------------------------------------------------------
\* C36: for a dirty TextInput or Checkbox without a binding key the sweep
\* into the Store writes nothing, the Store is unchanged by that widget, and
\* the widget's dirty flag is cleared all the same.
\* ------------------------------------------------------------------------
C36_UnboundInputsAreOnlyCleaned ==
    \A s \in StepsOf("sync_inputs") \cup StepsOf("sync_checkboxes") :
        /\ \A n \in DirtyUnbound(s) :
              /\ s.ws1[n] = [s.ws0[n] EXCEPT !.dirty = FALSE]
              /\ \A j \in DOMAIN s.wrote : s.wrote[j] # n - 1
        /\ Len(s.wrote) = Cardinality(DirtyBound(s))
        /\ \A k \in Keys :
              s.st1[k] # s.st0[k] => \E n \in DirtyBound(s) : s.ws0[n].binding = k
        /\ DirtyBound(s) = {} => s.st1 = s.st0

\* A sweep cleaned a dirty widget without a binding key, found no dirty
\* widget with one, and left the Store as it was
C36_Witness ==
    \E s \in StepsOf("sync_inputs") \cup StepsOf("sync_checkboxes") :
        /\ DirtyUnbound(s) # {}
        /\ DirtyBound(s) = {}
        /\ s.st1 = s.st0
        /\ s.st0 # [k \in Keys |-> Absent]
        /\ \A n \in DirtyUnbound(s) : ~s.ws1[n].dirty

\* The text inputs of the skin whose text_input_draw names an invalid-state
\* image that the asset map lacks
LacksInvalidImage ==
    {p \in AllParts :
        /\ p.part_type = "TextInput"
        /\ p.section # <<>>
        /\ p.invalid # "none"
        /\ ~HasImage(p.invalid)}

\* ------------------------------------------------------------------------
\* C37: every asset key a part references is resolved at build time, the
\* optional invalid-state image of a TextInput included: when
\* text_input_draw.invalid names a key the asset map lacks, and nothing else
\* is missing in the skin, build fails with AssetNotFound on that key and
\* builds no TextInput without an invalid image.
\* ------------------------------------------------------------------------
C37_MissingInvalidImageFailsBuild ==
    (/\ BuildReturned
     /\ LacksInvalidImage # {}
     /\ \A p \in AllParts : MissingKeys(p) = {} /\ ~LacksSection(p))
       => /\ appCall.ret = ErrR("AssetNotFound")
          /\ \E p \in LacksInvalidImage : appCall.a = p.invalid
          /\ NoTreeReturned

\* What the code does: the build succeeds and the TextInput has no invalid
\* image, as if the section had named none
C37_MissingInvalidImageIsDropped ==
    (/\ BuildReturned
     /\ \A p \in AllParts : MissingKeys(p) = {} /\ ~LacksSection(p))
       => /\ BuildSucceeded
          /\ \A n \in DOMAIN widgets :
                widgets[n].kind = "TextInput"
                   => \E p \in AllParts :
                         /\ p.id = widgets[n].part
                         /\ widgets[n].invalid
                               = (IF p \in LacksInvalidImage THEN "none" ELSE p.invalid)

\* The scroll containers built from a part that specifies content_height,
\* each with its part: <<widget, part>>
SizedScrollContainers ==
    {wp \in {<<widgets[n], p>> : n \in DOMAIN widgets, p \in AllParts} :
        /\ wp[1].kind = "SkinVScroll"
        /\ wp[2].id = wp[1].part
        /\ wp[2].content_height # None}

\* ------------------------------------------------------------------------
\* C38: the SkinVScroll built for a VScrollContainer part that specifies
\* content_height has exactly that content height, and the max_scroll that
\* follows from it, also when the part has a nested child whose preferred
\* height differs.
\* ------------------------------------------------------------------------
C38_ContentHeightIsThePartsOwn ==
    BuildSucceeded =>
        \A wp \in SizedScrollContainers :
            /\ wp[1].content_height = wp[2].content_height
            /\ MaxScroll(wp[1])
                  = (IF wp[2].content_height > wp[2].height
                     THEN wp[2].content_height - wp[2].height
                     ELSE 0)

\* What the code does: the content height is the part's own only when the
\* part has no child, and the child's preferred height otherwise
C38_ContentHeightIsTheChilds ==
    BuildSucceeded =>
        \A wp \in SizedScrollContainers :
            wp[1].content_height
               = (IF wp[2].child = <<>>
                  THEN wp[2].content_height
                  ELSE PreferredHeight(wp[1].child[1]))

\* The text input of SpecText
Input == widgets[1]

\* 0 <= cursor <= text.len()
CursorInText == Input.cursor \in 0 .. ByteLen(Input.text)

\* The text holds ASCII characters only
IsAscii(text) == \A i \in DOMAIN text : LenUtf8(text[i]) = 1

\* The step is on_event of the given kind of event
OnEventOf(kind) == appCall'.op = "on_event" /\ appCall'.a = kind

\* The character of a CharInput is one the input accepts
Accepted(w, c) ==
    /\ ~NotPrintable(c)
    /\ ~RefusedByMode(w, c)
    /\ ~(w.max_length # None /\ ByteLen(w.text) >= w.max_length)

\* The text without its i-th character
Without(text, i) == SubSeq(text, 1, i - 1) \o SubSeq(text, i + 1, Len(text))

\* What the editing events do : an accepted
\* character goes in at the cursor, which advances by one; Backspace takes
\* out the character that ends at the cursor, Delete the one that starts
\* there; none of them panics
Edits ==
    /\ (OnEventOf("CharInput") /\ Accepted(Input, appCall'.trace[1]))
          => /\ ~crashed'
             /\ Input'.cursor = Input.cursor + 1
             /\ IsCharBoundary(Input.text, Input.cursor)
                   => LET i == CharAt(Input.text, Input.cursor)
                      IN  Input'.text = SubSeq(Input.text, 1, i - 1)
                                          \o <<appCall'.trace[1]>>
                                          \o SubSeq(Input.text, i, Len(Input.text))
    /\ (OnEventOf("Backspace") /\ Input.cursor > 0)
          => /\ ~crashed'
             /\ IsCharBoundary(Input.text, Input.cursor)
                   => LET i == CharAt(Input.text, Input.cursor) - 1
                      IN  /\ Input'.text = Without(Input.text, i)
                          /\ Input'.cursor = Offset(Input.text, i)
    /\ (OnEventOf("Delete") /\ Input.cursor < ByteLen(Input.text))
          => /\ ~crashed'
             /\ Input'.cursor = Input.cursor
             /\ IsCharBoundary(Input.text, Input.cursor)
                   => Input'.text = Without(Input.text, CharAt(Input.text, Input.cursor))
    /\ (OnEventOf("Backspace") /\ Input.cursor = 0) => Input' = Input
    /\ (OnEventOf("Delete") /\ Input.cursor = ByteLen(Input.text)) => Input' = Input

\* ------------------------------------------------------------------------
\* C39: 0 <= cursor <= length of the text after any sequence of CharInput
\* and KeyDown events and set_text calls; an accepted character is inserted
\* at the cursor and advances it by one, Backspace removes the character
\* before the cursor, Delete the character at the cursor.
\* ------------------------------------------------------------------------
C39_CursorEditsTheText ==
    /\ []CursorInText
    /\ [][Edits]_vars

\* The same for the inputs whose text is ASCII when the event arrives
C39_CursorEditsAsciiText ==
    /\ []CursorInText
    /\ [][IsAscii(Input.text) => Edits]_vars

\* What a step does to the dirty flag: clear_dirty clears it, a call that
\* changes the text sets it, and any other call leaves it as it was
DirtyFollowsTheText ==
    IF appCall'.op = "clear_dirty"
    THEN ~Input'.dirty
    ELSE IF Input'.text # Input.text
    THEN Input'.dirty
    ELSE Input'.dirty = Input.dirty

\* ------------------------------------------------------------------------
\* C40: is_dirty() is true exactly when the text has been modified since the
\* last clear_dirty or since construction: every operation that changes the
\* text, set_text included, sets the flag; cursor movement, focus events,
\* Enter and rejected input leave it unchanged.
\* ------------------------------------------------------------------------
C40_DirtyMeansModified ==
    /\ [](appCall.op = "new" => ~Input.dirty)
    /\ [][DirtyFollowsTheText]_vars

\* The same without set_text, which changes the text and leaves the flag as
\* it was
C40_DirtyMeansEdited ==
    /\ [](appCall.op = "new" => ~Input.dirty)
    /\ [][IF appCall'.op = "set_text"
          THEN Input'.dirty = Input.dirty
          ELSE DirtyFollowsTheText]_vars

====
